---- MODULE Spec2Model ----
(***************************************************************************)
(* Verification model of the email project analyzers                       *)
(*   src/email_project_analyzer.py    (keyword variant)                    *)
(*   src/email_project_analyzer_2.py  (ML-enriched variant)                *)
(* Texts are TLA+ strings handled character by character, so that          *)
(* lower(), `in` and str.count() are computed as Python computes them.     *)
(***************************************************************************)
EXTENDS Integers, Sequences, FiniteSets, TLC

(***************************************************************************)
(* Python string primitives                                                *)
(***************************************************************************)
UpperChars == "ABCDEFGHIJKLMNOPQRSTUVWXYZÉÈÀÙÇÊÛ"
LowerChars == "abcdefghijklmnopqrstuvwxyzéèàùçêû"

SetMin(S) == CHOOSE x \in S : \A y \in S : x <= y

SetMax(S) == CHOOSE x \in S : \A y \in S : y <= x

\* s.find(sub, i): the index (from 1) of the first occurrence of sub in s at
\* or after i, 0 when there is none
Find(s, sub, i) ==
    LET at == {j \in i..(Len(s) - Len(sub) + 1) : SubSeq(s, j, j + Len(sub) - 1) = sub}
    IN  IF at = {} THEN 0 ELSE SetMin(at)

UpperSet ==
    {"A", "B", "C", "D", "E", "F", "G", "H", "I", "J", "K", "L", "M", "N", "O",
     "P", "Q", "R", "S", "T", "U", "V", "W", "X", "Y", "Z",
     "É", "È", "À", "Ù", "Ç", "Ê", "Û"}

CharLower(c) ==
    IF c \in UpperSet
    THEN LET k == Find(UpperChars, c, 1) IN SubSeq(LowerChars, k, k)
    ELSE c

\* str.lower(): every character lowered, the string taken by halves
RECURSIVE lower(_)
lower(s) ==
    IF Len(s) = 0 THEN ""
    ELSE IF Len(s) = 1 THEN CharLower(s)
    ELSE lower(SubSeq(s, 1, Len(s) \div 2))
         \o lower(SubSeq(s, Len(s) \div 2 + 1, Len(s)))

\* sub in s
Contains(sub, s) ==
    \E i \in 1..(Len(s) - Len(sub) + 1) : SubSeq(s, i, i + Len(sub) - 1) = sub

\* s.count(sub): non-overlapping occurrences, scanning from the left
RECURSIVE CountFrom(_, _, _)
CountFrom(s, sub, i) ==
    LET at == Find(s, sub, i)
    IN  IF at = 0 THEN 0 ELSE 1 + CountFrom(s, sub, at + Len(sub))

Count(s, sub) == CountFrom(s, sub, 1)

\* f"{email['subject']} {email['body']}"
SubjectBody(e) == e.subject \o " " \o e.body

Min(a, b) == IF a <= b THEN a ELSE b

\* e, with v computed first: the statements of a loop body run one after the
\* other, each on the value the one before has produced
After(v, e) == IF v = v THEN e ELSE e

Repeat(x, n) == [j \in 1..n |-> x]

\* the total of a sequence of numbers, taken by halves
RECURSIVE SumSeq(_)
SumSeq(seq) ==
    IF Len(seq) = 0 THEN 0
    ELSE IF Len(seq) = 1 THEN seq[1]
    ELSE SumSeq(SubSeq(seq, 1, Len(seq) \div 2))
         + SumSeq(SubSeq(seq, Len(seq) \div 2 + 1, Len(seq)))

\* seq[:n]
Take(seq, n) == SubSeq(seq, 1, Min(n, Len(seq)))

\* seq[-n:]
Last(seq, n) == SubSeq(seq, Len(seq) - Min(n, Len(seq)) + 1, Len(seq))

(***************************************************************************)
(* EmailIntelligentAnalyzer.setup_basic_analyzers: the risk lexicon, in    *)
(* dict (insertion) order                                                  *)
(***************************************************************************)
risk_keywords ==
    << [keyword |-> "urgent",      weight |-> 3],
       [keyword |-> "critique",    weight |-> 3],
       [keyword |-> "problème",    weight |-> 2],
       [keyword |-> "retard",      weight |-> 2],
       [keyword |-> "échéance",    weight |-> 2],
       [keyword |-> "budget",      weight |-> 1],
       [keyword |-> "dépassement", weight |-> 3],
       [keyword |-> "erreur",      weight |-> 2],
       [keyword |-> "bug",         weight |-> 2],
       [keyword |-> "bloqué",      weight |-> 3],
       [keyword |-> "annulé",      weight |-> 3],
       [keyword |-> "report",      weight |-> 2],
       [keyword |-> "danger",      weight |-> 3],
       [keyword |-> "alerte",      weight |-> 2],
       [keyword |-> "attention",   weight |-> 1] >>

urgent_words == <<"urgent", "asap", "immédiat", "critique", "emergency">>


(***************************************************************************)
(* EmailIntelligentAnalyzer.calculate_risk_score                           *)
(***************************************************************************)
\* dict.get('tendance'): None when the key is absent ({"emails_analysés": 0})
Tendance(sentiment_data) ==
    IF "tendance" \in DOMAIN sentiment_data THEN sentiment_data["tendance"]
    ELSE "None"

\* the inner loop over self.risk_keywords.items() for one email: the sum of
\* the weights of the lexicon terms from position k on that occur in text
RECURSIVE RiskWeightFrom(_, _)
RiskWeightFrom(text, k) ==
    IF k > Len(risk_keywords) THEN 0
    ELSE (IF Contains(risk_keywords[k].keyword, text)
          THEN risk_keywords[k].weight ELSE 0) + RiskWeightFrom(text, k + 1)

RECURSIVE RiskHitsFrom(_, _)
RiskHitsFrom(text, k) ==
    IF k > Len(risk_keywords) THEN 0
    ELSE (IF Contains(risk_keywords[k].keyword, text) THEN 1 ELSE 0)
         + RiskHitsFrom(text, k + 1)

\* mutant: every hit adds 3, whatever the term's weight
RiskKeywordLoopUnweighted(emails) ==
    LET Text(n) == lower(SubjectBody(emails[n]))
        hits    == [n \in 1..Len(emails) |-> RiskHitsFrom(Text(n), 1)]
    IN  [score |-> SumSeq(hits) * 3, count |-> SumSeq(hits)]

\* mutant: the keyword loop runs once, after the loop over emails, on the
\* text of the last email
RiskKeywordLoopLast(emails) ==
    IF emails = <<>> THEN [score |-> 0, count |-> 0]
    ELSE LET text == lower(SubjectBody(emails[Len(emails)]))
         IN  [score |-> RiskWeightFrom(text, 1) * 3, count |-> RiskHitsFrom(text, 1)]

\* the outer loop over emails: every hit of a term in an email adds
\* weight * 3 to risk_score and 1 to risk_keyword_count
RiskKeywordLoop(emails) ==
    LET Text(n) == lower(SubjectBody(emails[n]))
        weights == [n \in 1..Len(emails) |-> RiskWeightFrom(Text(n), 1)]
        hits    == [n \in 1..Len(emails) |-> RiskHitsFrom(Text(n), 1)]
    IN  [score |-> SumSeq(weights) * 3, count |-> SumSeq(hits)]

SentimentFactor(sentiment_data) ==
    IF Tendance(sentiment_data) = "Négative" THEN 30 ELSE 0

VolumeFactor(email_count) ==
    IF email_count > 50 THEN 10
    ELSE IF email_count < 3 THEN 15
    ELSE 0

\* mutant: a score of exactly 60 is not yet CRITIQUE
RiskLevelStrict(risk_score) ==
    IF risk_score > 60 THEN "CRITIQUE"
    ELSE IF risk_score >= 30 THEN "MODÉRÉ"
    ELSE "FAIBLE"

RiskLevel(risk_score) ==
    IF risk_score >= 60 THEN "CRITIQUE"
    ELSE IF risk_score >= 30 THEN "MODÉRÉ"
    ELSE "FAIBLE"

\* mutant: the additive score is returned as it is
ClampScoreNone(risk_score) == risk_score

ClampScore(risk_score) == Min(risk_score, 100)

\* (the leading pictograms of the three templates are left out)
get_recommendation(risk_level) ==
    CASE risk_level = "CRITIQUE" ->
           "ATTENTION IMMÉDIATE - Réviser le projet, contacter l'équipe"
      [] risk_level = "MODÉRÉ" ->
           "Surveillance recommandée - Planifier un point d'équipe"
      [] risk_level = "FAIBLE" ->
           "Projet sur la bonne voie - Suivi normal"
      [] OTHER -> "Suivi standard recommandé"

\* mutant: the volume factor is appended before the keyword factor
RiskFactorsVolumeSecond(sentiment_data, risk_keyword_count, email_count) ==
    (IF Tendance(sentiment_data) = "Négative"
     THEN <<"Sentiment négatif dominant">> ELSE <<>>)
    \o (IF email_count > 50 THEN <<"Volume d'emails élevé">>
        ELSE IF email_count < 3 THEN <<"Activité très faible">>
        ELSE <<>>)
    \o (IF risk_keyword_count > 0
        THEN <<ToString(risk_keyword_count) \o " mots-clés de risque détectés">>
        ELSE <<>>)

RiskFactors(sentiment_data, risk_keyword_count, email_count) ==
    (IF Tendance(sentiment_data) = "Négative"
     THEN <<"Sentiment négatif dominant">> ELSE <<>>)
    \o (IF risk_keyword_count > 0
        THEN <<ToString(risk_keyword_count) \o " mots-clés de risque détectés">>
        ELSE <<>>)
    \o (IF email_count > 50 THEN <<"Volume d'emails élevé">>
        ELSE IF email_count < 3 THEN <<"Activité très faible">>
        ELSE <<>>)

calculate_risk_score(emails, sentiment_data) ==
    LET kw         == RiskKeywordLoop(emails)
        risk_score == SentimentFactor(sentiment_data) + kw.score
                      + VolumeFactor(Len(emails))
        risk_level == RiskLevel(risk_score)
    IN  [score_risque    |-> ClampScore(risk_score),
         niveau_risque   |-> risk_level,
         facteurs_risque |-> RiskFactors(sentiment_data, kw.count, Len(emails)),
         recommandation  |-> get_recommendation(risk_level)]

(***************************************************************************)
(* EmailIntelligentAnalyzer.identify_critical_emails                       *)
(***************************************************************************)
RECURSIVE RiskFlagsFrom(_, _)
RiskFlagsFrom(text, k) ==
    IF k > Len(risk_keywords) THEN <<>>
    ELSE (IF Contains(risk_keywords[k].keyword, text)
          THEN <<risk_keywords[k].keyword>> ELSE <<>>)
         \o RiskFlagsFrom(text, k + 1)

\* mutant: an urgency word that is also a risk term is not flagged again
UrgentFlagsOnlyNew(text, k) ==
    LET Fresh(w) == /\ Contains(w, text)
                    /\ \A j \in 1..Len(risk_keywords) : risk_keywords[j].keyword # w
        found == SelectSeq(SubSeq(urgent_words, k, Len(urgent_words)), Fresh)
    IN  [j \in 1..Len(found) |-> "urgent_" \o found[j]]

RECURSIVE UrgentFlagsFrom(_, _)
UrgentFlagsFrom(text, k) ==
    IF k > Len(urgent_words) THEN <<>>
    ELSE (IF Contains(urgent_words[k], text)
          THEN <<"urgent_" \o urgent_words[k]>> ELSE <<>>)
         \o UrgentFlagsFrom(text, k + 1)

CriticalityScore(email_data) ==
    LET text == lower(SubjectBody(email_data))
    IN  RiskWeightFrom(text, 1) + 5 * Len(UrgentFlagsFrom(text, 1))

Preview(body) ==
    IF Len(body) > 150 THEN SubSeq(body, 1, 150) \o "..." ELSE body

CriticalEntry(email_data) ==
    LET text == lower(SubjectBody(email_data))
    IN  [subject           |-> email_data.subject,
         from              |-> email_data.from,
         date              |-> email_data.date,
         criticality_score |-> CriticalityScore(email_data),
         flags             |-> RiskFlagsFrom(text, 1) \o UrgentFlagsFrom(text, 1),
         preview           |-> Preview(email_data.body)]

\* mutant: the threshold is exclusive
IsCriticalStrict(email_data) == CriticalityScore(email_data) > 4

\* if criticality_score >= 4: critical_emails.append(...)
IsCritical(email_data) == CriticalityScore(email_data) >= 4

\* the loop over emails: the entries of the records that reach the
\* threshold, in the order of emails
CriticalCandidates(emails) ==
    LET selected == SelectSeq(emails, IsCritical)
    IN  [j \in 1..Len(selected) |-> CriticalEntry(selected[j])]

\* mutant: an entry goes in front of the entries of equal score
InsertDescUnstable(sorted, x) ==
    LET k == Cardinality({j \in 1..Len(sorted) :
                            sorted[j].criticality_score > x.criticality_score})
    IN  SubSeq(sorted, 1, k) \o <<x>> \o SubSeq(sorted, k + 1, Len(sorted))

\* list.sort(key=criticality_score, reverse=True): stable, so an entry goes
\* behind every entry already placed whose score is not smaller
InsertDesc(sorted, x) ==
    LET k == Cardinality({j \in 1..Len(sorted) :
                            sorted[j].criticality_score >= x.criticality_score})
    IN  SubSeq(sorted, 1, k) \o <<x>> \o SubSeq(sorted, k + 1, Len(sorted))

RECURSIVE SortDescFrom(_, _, _)
SortDescFrom(entries, n, acc) ==
    IF n > Len(entries) THEN acc
    ELSE LET placed == InsertDesc(acc, entries[n])
         IN  After(placed, SortDescFrom(entries, n + 1, placed))

SortByCriticality(entries) == SortDescFrom(entries, 1, <<>>)

\* critical_emails[:5]
TopCritical(entries) == Take(entries, 5)

identify_critical_emails(emails) ==
    TopCritical(SortByCriticality(CriticalCandidates(emails)))

(***************************************************************************)
(* EmailProjectAnalyzer.check_project_relevance                            *)
(***************************************************************************)
RECURSIVE MatchingFrom(_, _, _)
MatchingFrom(search_text, project_filters, k) ==
    IF k > Len(project_filters) THEN <<>>
    ELSE (IF Contains(lower(project_filters[k]), search_text)
          THEN <<project_filters[k]>> ELSE <<>>)
         \o MatchingFrom(search_text, project_filters, k + 1)

\* mutant: the filter is looked for as it is written
check_project_relevanceCased(email_content, project_filters) ==
    LET Has(f) == Contains(f, lower(SubjectBody(email_content)))
    IN  SelectSeq(project_filters, Has)

check_project_relevance(email_content, project_filters) ==
    MatchingFrom(lower(SubjectBody(email_content)), project_filters, 1)

(***************************************************************************)
(* EmailProjectAnalyzer.extract_keywords.  A bucket's keywords mapping is  *)
(* a Python dict: a sequence of [keyword, count] items in insertion order. *)
(***************************************************************************)
project_keywords ==
    << "deadline", "échéance", "livraison", "milestone", "étape",
       "budget", "coût", "prix", "devis", "facture",
       "réunion", "meeting", "call", "appel", "rdv",
       "urgent", "priorité", "important", "critique",
       "terminé", "fini", "complété", "livré", "deployed",
       "projet", "project", "développement", "development",
       "test", "bug", "issue", "problème", "solution" >>

DictKeys(d) == {d[j].keyword : j \in 1..Len(d)}

\* d[key] of a defaultdict(int), read without inserting
DictGet(d, key) ==
    IF \E j \in 1..Len(d) : d[j].keyword = key
    THEN d[CHOOSE j \in 1..Len(d) : d[j].keyword = key].count
    ELSE 0

\* d[key] += n : an existing item keeps its place, a new one goes last
DictAdd(d, key, n) ==
    IF \E j \in 1..Len(d) : d[j].keyword = key
    THEN [d EXCEPT ![CHOOSE j \in 1..Len(d) : d[j].keyword = key].count = @ + n]
    ELSE Append(d, [keyword |-> key, count |-> n])

\* mutant: a term is counted once for a record, however often it occurs
TallyKeywordOnce(keywords, keyword, text) ==
    IF Contains(keyword, text) THEN DictAdd(keywords, keyword, 1) ELSE keywords

\* one turn of the loop over project_keywords
TallyKeyword(keywords, keyword, text) ==
    IF Contains(keyword, text)
    THEN DictAdd(keywords, keyword, Count(text, keyword))
    ELSE keywords

RECURSIVE TallyFrom(_, _, _)
TallyFrom(keywords, text, k) ==
    IF k > Len(project_keywords) THEN keywords
    ELSE LET tallied == TallyKeyword(keywords, project_keywords[k], text)
         IN  After(tallied, TallyFrom(tallied, text, k + 1))

extract_keywords(email_content, keywords) ==
    TallyFrom(keywords, lower(SubjectBody(email_content)), 1)

(***************************************************************************)
(* EmailProjectAnalyzer.extract_participants: re.findall of                *)
(*   \b[A-Za-z0-9._%+-]+@[A-Za-z0-9.-]+\.[A-Z|a-z]{2,}\b                   *)
(***************************************************************************)
AsciiLetters == "abcdefghijklmnopqrstuvwxyzABCDEFGHIJKLMNOPQRSTUVWXYZ"
Digits       == "0123456789"

\* the characters of a string
CharsOf(s) == {SubSeq(s, k, k) : k \in 1..Len(s)}

LocalClass   == CharsOf(AsciiLetters \o Digits \o "._%+-")
DomainClass  == CharsOf(AsciiLetters \o Digits \o ".-")
TldClass     == CharsOf(AsciiLetters \o "|")
\* \w of a str pattern: letters (accented ones too), digits and underscore
WordClass    == CharsOf(AsciiLetters \o Digits \o "_" \o "éèàùçêûÉÈÀÙÇÊÛ")

CharAt(s, i) == IF i >= 1 /\ i <= Len(s) THEN SubSeq(s, i, i) ELSE ""

InClass(c, class) == c \in class

\* \b between the characters i-1 and i
Boundary(s, i) == InClass(CharAt(s, i - 1), WordClass) # InClass(CharAt(s, i), WordClass)

\* the last index of the longest run of class characters that starts at i
\* (i - 1 when there is none)
RunEnd(s, i, class) ==
    LET stop == {j \in i..Len(s) : ~InClass(CharAt(s, j), class)}
    IN  IF i > Len(s) THEN i - 1
        ELSE IF stop = {} THEN Len(s)
        ELSE SetMin(stop) - 1

\* the ends q of a top-level label \.[A-Z|a-z]{2,}\b whose dot is at p + 1
TldEnds(s, p) ==
    IF CharAt(s, p + 1) # "." THEN {}
    ELSE {q \in (p + 3)..RunEnd(s, p + 2, TldClass) : Boundary(s, q + 1)}

\* the end of the match that starts at i, 0 when there is none: the local
\* part and the domain are greedy, the domain gives back characters until
\* the rest of the pattern matches
MatchEnd(s, i) ==
    LET j == RunEnd(s, i, LocalClass)
        m == RunEnd(s, j + 2, DomainClass)
        P == {p \in (j + 2)..(m - 1) : TldEnds(s, p) # {}}
    IN  IF ~Boundary(s, i) \/ j < i \/ CharAt(s, j + 1) # "@" \/ P = {}
        THEN 0
        ELSE SetMax(TldEnds(s, SetMax(P)))

RECURSIVE FindAllFrom(_, _)
FindAllFrom(s, i) ==
    IF i > Len(s) THEN <<>>
    ELSE LET e == MatchEnd(s, i)
         IN  IF e = 0 THEN FindAllFrom(s, i + 1)
             ELSE <<SubSeq(s, i, e)>> \o FindAllFrom(s, e + 1)

findall(s) == FindAllFrom(s, 1)

SeqRange(seq) == {seq[j] : j \in 1..Len(seq)}

\* if email_content[field]: participants.update(re.findall(...))
FieldAddresses(field) == IF field = "" THEN {} ELSE SeqRange(findall(field))

extract_participantsSender(email_content, participants) ==
    participants \cup FieldAddresses(email_content.from)

extract_participants(email_content, participants) ==
    participants \cup FieldAddresses(email_content.from)
                 \cup FieldAddresses(email_content.to)

(***************************************************************************)
(* EmailProjectAnalyzer.generate_summary: the date range.  A missing Date  *)
(* header (None) is PyNone.  parsedate_to_datetime is modelled on the      *)
(* RFC 2822 shape "Www, DD Mon YYYY HH:MM:SS +ZZZZ" and raises on any      *)
(* other string; the host's time zone is taken to be UTC.                  *)
(***************************************************************************)
PyNone == "<None>"

\* `if d`
Truthy(d) == d # PyNone /\ d # ""

\* the decimal value of a string of digits, -1 when it is not one
RECURSIVE ParseInt(_)
ParseInt(s) ==
    IF s = "" THEN -1
    ELSE LET c == Find(Digits, SubSeq(s, Len(s), Len(s)), 1)
             r == IF Len(s) = 1 THEN 0 ELSE ParseInt(SubSeq(s, 1, Len(s) - 1))
         IN  IF c = 0 \/ r < 0 THEN -1 ELSE r * 10 + (c - 1)

\* if '(' in d: d = d.split(' (')[0]
\* mutant: the comment is left in the date
StripCommentNever(d) == d

StripComment(d) ==
    IF Contains("(", d) /\ Contains(" (", d)
    THEN SubSeq(d, 1, Find(d, " (", 1) - 1)
    ELSE d

MonthNames == "JanFebMarAprMayJunJulAugSepOctNovDec"

DaysFromCivil(y0, m, d) ==
    LET y   == IF m <= 2 THEN y0 - 1 ELSE y0
        era == y \div 400
        yoe == y - era * 400
        doy == (153 * (IF m > 2 THEN m - 3 ELSE m + 9) + 2) \div 5 + d - 1
        doe == yoe * 365 + yoe \div 4 - yoe \div 100 + doy
    IN  era * 146097 + doe - 719468

CivilFromDays(z0) ==
    LET z   == z0 + 719468
        era == z \div 146097
        doe == z - era * 146097
        yoe == (doe - doe \div 1460 + doe \div 36524 - doe \div 146096) \div 365
        doy == doe - (365 * yoe + yoe \div 4 - yoe \div 100)
        mp  == (5 * doy + 2) \div 153
        m   == IF mp < 10 THEN mp + 3 ELSE mp - 9
    IN  [year  |-> yoe + era * 400 + (IF m <= 2 THEN 1 ELSE 0),
         month |-> m,
         day   |-> doy - (153 * mp + 2) \div 5 + 1]

\* email.utils.parsedate_to_datetime followed by astimezone(tz=None) and
\* replace(tzinfo=None): the naive local time in seconds since 1970-01-01,
\* or ok = FALSE when the parser raises
parsedate_to_datetime(d) ==
    LET dd   == ParseInt(SubSeq(d, 6, 7))
        mon  == Find(MonthNames, SubSeq(d, 9, 11), 1)
        yy   == ParseInt(SubSeq(d, 13, 16))
        hh   == ParseInt(SubSeq(d, 18, 19))
        mi   == ParseInt(SubSeq(d, 21, 22))
        ss   == ParseInt(SubSeq(d, 24, 25))
        sign == SubSeq(d, 27, 27)
        zh   == ParseInt(SubSeq(d, 28, 29))
        zm   == ParseInt(SubSeq(d, 30, 31))
        ok   == /\ Len(d) = 31
                /\ SubSeq(d, 4, 5) = ", " /\ SubSeq(d, 8, 8) = " "
                /\ SubSeq(d, 12, 12) = " " /\ SubSeq(d, 17, 17) = " "
                /\ SubSeq(d, 20, 20) = ":" /\ SubSeq(d, 23, 23) = ":"
                /\ SubSeq(d, 26, 26) = " "
                /\ mon > 0 /\ mon % 3 = 1
                /\ dd >= 1 /\ dd <= 31 /\ yy >= 0
                /\ hh >= 0 /\ hh <= 23 /\ mi >= 0 /\ mi <= 59
                /\ ss >= 0 /\ ss <= 59
                /\ sign \in {"+", "-"} /\ zh >= 0 /\ zm >= 0 /\ zm <= 59
    IN  IF ~ok THEN [ok |-> FALSE, seconds |-> 0]
        ELSE [ok      |-> TRUE,
              seconds |-> DaysFromCivil(yy, (mon + 2) \div 3, dd) * 86400
                          + hh * 3600 + mi * 60 + ss
                          - (IF sign = "+" THEN 1 ELSE -1) * (zh * 60 + zm) * 60]

Pad(n, width) ==
    LET t == ToString(n)
    IN  IF Len(t) >= width THEN t
        ELSE SubSeq("0000", 1, width - Len(t)) \o t

\* dt.strftime('%d/%m/%Y')
strftime(seconds) ==
    LET c == CivilFromDays(seconds \div 86400)
    IN  Pad(c.day, 2) \o "/" \o Pad(c.month, 2) \o "/" \o Pad(c.year, 4)

\* the parsed_dates list: the dates that are truthy and parse
RECURSIVE ParsedDates(_, _)
ParsedDates(dates, n) ==
    IF n > Len(dates) THEN <<>>
    ELSE LET dt == parsedate_to_datetime(StripComment(dates[n]))
         IN  (IF Truthy(dates[n]) /\ dt.ok THEN <<dt.seconds>> ELSE <<>>)
             \o ParsedDates(dates, n + 1)

DateRange(dates) ==
    LET parsed_dates == SeqRange(ParsedDates(dates, 1))
    IN  IF parsed_dates = {} THEN ""
        ELSE LET min_date == strftime(SetMin(parsed_dates))
                 max_date == strftime(SetMax(parsed_dates))
             IN  IF min_date # max_date
                 THEN min_date \o " - " \o max_date
                 ELSE min_date

(***************************************************************************)
(* EmailProjectAnalyzer.generate_summary                                   *)
(***************************************************************************)
\* mutant: an item goes before the items of its own count
InsertByCountUnstable(sorted, x) ==
    LET k == Cardinality({j \in 1..Len(sorted) : sorted[j].count > x.count})
    IN  SubSeq(sorted, 1, k) \o <<x>> \o SubSeq(sorted, k + 1, Len(sorted))

\* sorted(..., key=lambda x: x[1], reverse=True): stable
InsertByCount(sorted, x) ==
    LET k == Cardinality({j \in 1..Len(sorted) : sorted[j].count >= x.count})
    IN  SubSeq(sorted, 1, k) \o <<x>> \o SubSeq(sorted, k + 1, Len(sorted))

RECURSIVE SortByCountFrom(_, _, _)
SortByCountFrom(items, n, acc) ==
    IF n > Len(items) THEN acc
    ELSE LET placed == InsertByCount(acc, items[n])
         IN  After(placed, SortByCountFrom(items, n + 1, placed))

\* dict(sorted(data['keywords'].items(), ...)[:10])
TopKeywords(keywords) == Take(SortByCountFrom(keywords, 1, <<>>), 10)

\* [e['subject'] for e in data['emails'][-3:] if e['subject']]
RecentSubjects(emails) ==
    LET NonEmpty(e) == e.subject # ""
        Subject(e)  == e.subject
        recent      == SelectSeq(Last(emails, 3), NonEmpty)
    IN  [j \in 1..Len(recent) |-> Subject(recent[j])]

\* list(data['participants']): the iteration order of a set of str follows
\* the strings' hashes, which are salted anew for every interpreter run; any
\* order of the set's members is a possible list
ListOrders(S) ==
    {order \in [1..Cardinality(S) -> S] : SeqRange(order) = S}

\* the summary of one project, participants_list being list(participants)
ProjectSummary(data, participants_list) ==
    LET top_keywords == TopKeywords(data.keywords)
        email_count  == Len(data.emails)
    IN  [nb_emails            |-> email_count,
         nb_participants      |-> Len(participants_list),
         participants         |-> participants_list,
         periode              |-> DateRange(data.dates),
         mots_cles_principaux |-> top_keywords,
         sujets_recents       |-> RecentSubjects(data.emails),
         activite_recente     |-> email_count > 0,
         score_activite       |-> email_count + Len(top_keywords)]

\* the choices of a list order for every project's participants
SetOrders(project_data) ==
    {orders \in [DOMAIN project_data ->
                   UNION {ListOrders(project_data[P].participants) :
                            P \in DOMAIN project_data}] :
        \A P \in DOMAIN project_data :
            orders[P] \in ListOrders(project_data[P].participants)}

generate_summary(project_data, orders) ==
    [P \in DOMAIN project_data |-> ProjectSummary(project_data[P], orders[P])]

(***************************************************************************)
(* EmailProjectAnalyzer.search_project_emails: the per-message loop body   *)
(***************************************************************************)
\* defaultdict(lambda: {...}): a bucket is made when a project is first used
NewBucket == [emails |-> <<>>, participants |-> {}, keywords |-> <<>>, dates |-> <<>>]

BucketOf(data, project) ==
    IF project \in DOMAIN data THEN data[project] ELSE NewBucket

\* project_data[project] = bucket
Put(data, project, bucket) == (project :> bucket) @@ data

\* mutant: a missing Date header is not recorded
AppendDatePresent(dates, email_content) ==
    IF Truthy(email_content.date) THEN Append(dates, email_content.date) ELSE dates

\* project_data[project]['dates'].append(email_content['date'])
AppendDate(dates, email_content) == Append(dates, email_content.date)

\* the body of `for project in matching_projects` (keyword variant)
AddToBucket(bucket, email_content) ==
    [emails       |-> Append(bucket.emails, email_content),
     dates        |-> AppendDate(bucket.dates, email_content),
     participants |-> extract_participants(email_content, bucket.participants),
     keywords     |-> extract_keywords(email_content, bucket.keywords)]

\* the same body in the ML-enriched variant, which tallies no keywords
AddToBucketML(bucket, email_content) ==
    [emails       |-> Append(bucket.emails, email_content),
     dates        |-> AppendDate(bucket.dates, email_content),
     participants |-> extract_participants(email_content, bucket.participants),
     keywords     |-> bucket.keywords]

\* one turn of `for project in matching_projects`
FileUnder(data, email_content, project, kind) ==
    Put(data, project,
        IF kind = "keyword"
        THEN AddToBucket(BucketOf(data, project), email_content)
        ELSE AddToBucketML(BucketOf(data, project), email_content))

RECURSIVE AddToProjects(_, _, _, _, _)
AddToProjects(data, email_content, matching_projects, k, kind) ==
    IF k > Len(matching_projects) THEN data
    ELSE LET filed == FileUnder(data, email_content, matching_projects[k], kind)
         IN  After(filed, AddToProjects(filed, email_content, matching_projects,
                                        k + 1, kind))

\* mutant: every project of the filter list gets its bucket at once
ClassifyEager(data, email_content, filters, kind) ==
    LET filed == AddToProjects(data, email_content,
                               check_project_relevance(email_content, filters), 1, kind)
    IN  [P \in DOMAIN filed \cup SeqRange(filters) |-> BucketOf(filed, P)]

\* classification of one extracted message and its filing into the buckets
Classify(data, email_content, filters, kind) ==
    AddToProjects(data, email_content,
                  check_project_relevance(email_content, filters), 1, kind)

(***************************************************************************)
(* EmailIntelligentAnalyzer.analyze_sentiment_basic and analyze_sentiment. *)
(* Confidences are counted in hundredths: 0.6 + (count * 0.1) is           *)
(* 60 + count * 10, and 0.5 is 50.                                         *)
(***************************************************************************)
positive_keywords ==
    <<"réussi", "succès", "bien", "parfait", "excellent", "terminé",
      "livré", "validé", "approuvé", "satisfait", "content">>

negative_keywords ==
    <<"problème", "erreur", "échec", "retard", "bloqué", "difficile",
      "impossible", "mauvais", "inquiet", "préoccupé", "urgent">>

\* sum(1 for word in words if word in text)
HitsIn(words, text) ==
    Cardinality({k \in 1..Len(words) : Contains(words[k], text)})

BasicConfidenceCapped(count) == Min(100, 60 + count * 10)

BasicConfidence(count) == 60 + count * 10

analyze_sentiment_basic(text) ==
    LET text_lower == lower(text)
        positive_count == HitsIn(positive_keywords, text_lower)
        negative_count == HitsIn(negative_keywords, text_lower)
    IN  IF positive_count > negative_count
        THEN [label |-> "POSITIVE", score |-> BasicConfidence(positive_count)]
        ELSE IF negative_count > positive_count
        THEN [label |-> "NEGATIVE", score |-> BasicConfidence(negative_count)]
        ELSE [label |-> "NEUTRAL", score |-> 50]

SentimentTextWhole(email) == SubjectBody(email)

\* text = f"{email.get('subject', '')} {email.get('body', '')}"[:512]
SentimentText(email) == Take(SubjectBody(email), 512)

Whitespace == {" ", "\t", "\n", "\r"}

\* mutant: only the empty text is blank
BlankEmpty(text) == text = ""

\* not text.strip()
Blank(text) == \A k \in 1..Len(text) : SubSeq(text, k, k) \in Whitespace

\* the entry appended to sentiments for one email
SentimentEntry(email, scored, method) ==
    [subject |-> email.subject, sentiment |-> scored.label,
     confidence |-> scored.score, date |-> email.date, method |-> method]

\* the number of entries whose label contains `label`
LabelCount(sentiments, label) ==
    Cardinality({k \in 1..Len(sentiments) : Contains(label, sentiments[k].sentiment)})

TrendByPlurality(sentiments) ==
    LET positive_count == LabelCount(sentiments, "POSITIVE")
        negative_count == LabelCount(sentiments, "NEGATIVE")
        neutral_count == Len(sentiments) - positive_count - negative_count
    IN  IF positive_count > negative_count /\ positive_count > neutral_count
        THEN "Positive"
        ELSE IF negative_count > positive_count /\ negative_count > neutral_count
        THEN "Négative"
        ELSE "Neutre"

Trend(sentiments) ==
    LET positive_count == LabelCount(sentiments, "POSITIVE")
        negative_count == LabelCount(sentiments, "NEGATIVE")
    IN  IF positive_count > negative_count THEN "Positive"
        ELSE IF negative_count > positive_count THEN "Négative"
        ELSE "Neutre"

\* the statistics analyze_sentiment returns.  confiance_moyenne is kept as
\* the exact fraction total / over of hundredths, before round(..., 2).
SentimentStats(sentiments, available) ==
    IF sentiments = <<>>
    THEN ("emails_analysés" :> 0)
    ELSE LET positive_count == LabelCount(sentiments, "POSITIVE")
             negative_count == LabelCount(sentiments, "NEGATIVE")
             neutral_count == Len(sentiments) - positive_count - negative_count
             confidences == [k \in 1..Len(sentiments) |-> sentiments[k].confidence]
         IN  ("emails_analysés" :> Len(sentiments))
             @@ ("sentiment_positif" :> positive_count)
             @@ ("sentiment_négatif" :> negative_count)
             @@ ("sentiment_neutre" :> neutral_count)
             @@ ("confiance_moyenne" :>
                    [total |-> SumSeq(confidences), over |-> Len(sentiments)])
             @@ ("détails" :> Last(sentiments, 3))
             @@ ("tendance" :> Trend(sentiments))
             @@ ("méthode" :> IF available THEN "ML" ELSE "Mots-clés")

(***************************************************************************)
(* Inputs of the analysis run: the messages of the mailbox (as             *)
(* extract_email_content returns them) and the --projects filter lists     *)
(***************************************************************************)
MaxEmails == 3

M1 == [subject |-> "Atlas deadline urgent",
       from    |-> "a@x.com",
       to      |-> "b@y.org, a@x.com",
       date    |-> "Mon, 02 Jun 2025 10:00:00 +0000",
       body    |-> "budget approved, atlas delivery urgent"]

M2 == [subject |-> "Maintain the TEST plan",
       from    |-> "Bob <b@y.org>",
       to      |-> "",
       date    |-> "Tue, 03 Jun 2025 09:30:00 +0200 (CEST)",
       body    |-> "Testing: test bug, projet ATLAS"]

M3 == [subject |-> "",
       from    |-> "b@y.org",
       to      |-> "a@x.com",
       date    |-> PyNone,
       body    |-> "Meeting budget"]

M4 == [subject |-> "Atlas",
       from    |-> "",
       to      |-> "nobody",
       date    |-> "not a date",
       body    |-> "deadline milestone budget prix devis facture meeting call rdv important fini"]

Messages == {M1, M2, M3, M4}

FilterLists == { <<"Atlas", "AI">>, <<"Atlas", "Atlas">>, <<"Zeus", "atlas", "Budget">> }

SeqsUpTo(S, n) == UNION {[1..k -> S] : k \in 0..n}

Mailboxes == SeqsUpTo(Messages, MaxEmails)

\* the mailboxes on which the program is run twice
MaxEmailsTwice == 2

MailboxesTwice == SeqsUpTo(Messages, MaxEmailsTwice)

(***************************************************************************)
(* Inputs of the risk scorer and of the critical-email ranker              *)
(***************************************************************************)
MaxRiskEmails == 2
BulkSmall == 5
BulkLarge == 50

R1 == [subject |-> "BUG bloqué", from |-> "Bob <b@y.org>", to |-> "",
       date |-> "Tue, 03 Jun 2025 09:30:00 +0200 (CEST)",
       body |-> "Debugging report: ERREUR critique"]

R2 == [subject |-> "Retard", from |-> "c@z.io", to |-> "a@x.com",
       date |-> PyNone, body |-> "alerte"]

R3 == [subject |-> "Budget ANNULÉ", from |-> "a@x.com", to |-> "c@z.io",
       date |-> "Mon, 02 Jun 2025 10:00:00 +0000", body |-> ""]

R4 == [subject |-> "Danger", from |-> "a@x.com", to |-> "",
       date |-> PyNone, body |-> "rien"]

R5 == [subject |-> "Réunion", from |-> "c@z.io", to |-> "b@y.org",
       date |-> "not a date", body |-> "tout va bien"]

RiskSamples == {M1, R1, R2, R3, R4, R5}

\* short lists of any make-up, lists around the top-5 cut, and long lists
\* around the high-volume threshold
RiskInputs ==
    SeqsUpTo(RiskSamples, MaxRiskEmails)
    \cup {Repeat(a, BulkSmall) \o tail :
             a \in RiskSamples, tail \in SeqsUpTo(RiskSamples, 1)}
    \cup {Repeat(a, BulkLarge) \o tail :
             a \in {M1, R5}, tail \in SeqsUpTo({R2, R5}, 1)}

\* the dicts analyze_sentiment can hand over, by their 'tendance'
SentimentInputs ==
    {("tendance" :> "Positive"), ("tendance" :> "Négative"),
     ("tendance" :> "Neutre"), ("emails_analysés" :> 0)}

(***************************************************************************)
(* Inputs of analyze_sentiment                                             *)
(***************************************************************************)
MaxSentEmails == 2

\* 512 characters in which no lexicon term occurs
Filler ==
    LET a == "blah blah blah. "
        b == a \o a \o a \o a
        c == b \o b \o b \o b
    IN  c \o c

\* five positive terms, no negative one
T1 == [subject |-> "Bien", from |-> "a@x.com", to |-> "b@y.org",
       date |-> "Mon, 02 Jun 2025 10:00:00 +0000",
       body |-> "Parfait, excellent: satisfait et content"]

\* two negative terms against one positive
T2 == [subject |-> "Retard", from |-> "b@y.org", to |-> "a@x.com",
       date |-> PyNone, body |-> "une erreur, mais bien"]

\* one term of each side
T3 == [subject |-> "URGENT", from |-> "a@x.com", to |-> "",
       date |-> "not a date", body |-> "tout est parfait"]

\* nothing but white space
T4 == [subject |-> "", from |-> "a@x.com", to |-> "", date |-> PyNone,
       body |-> " "]

\* the negative terms lie beyond the 512th character
T5 == [subject |-> "Bien", from |-> "b@y.org", to |-> "",
       date |-> "Tue, 03 Jun 2025 09:30:00 +0200 (CEST)",
       body |-> Filler \o " erreur retard"]

\* no term at all
T6 == [subject |-> "Hello", from |-> "a@x.com", to |-> "b@y.org",
       date |-> PyNone, body |-> "see you"]

SentimentSamples == {T1, T2, T3, T4, T5, T6}

\* short lists of any make-up, and lists of five records of which four are
\* analysed
SentimentMailboxes ==
    SeqsUpTo(SentimentSamples, MaxSentEmails)
    \cup {<<T2, a, T4, b, T1>> : a, b \in {T3, T6}}

\* what the transformers pipeline can answer: result['label'] in either
\* letter case, result['score'] in hundredths
MLLabels == {"POSITIVE", "NEGATIVE", "NEUTRAL", "positive"}

MLScores == {87}

(***************************************************************************)
(* State                                                                   *)
(***************************************************************************)
VARIABLES
    kind,             \* which file's EmailProjectAnalyzer runs: "keyword" or "ml"
    mailbox,          \* the messages the SEARCH finds, in UID order
    project_filters,  \* the --projects list
    pc,               \* position in search_project_emails and its caller
    i,                \* messages the loop has handled
    project_data,     \* project -> bucket
    fetched,          \* history: the email_content of the messages extracted
    result,           \* what search_project_emails returned
    summary,          \* what generate_summary returned
    run,              \* which run of the program this is: 1 or 2
    first_fetched,    \* history: the messages the first run extracted
    first_summary,    \* history: the summary the first run built
    emails_in,        \* risk scorer: the emails argument
    sentiment_in,     \* risk scorer: the sentiment_data argument
    rpc,              \* risk scorer: position
    risk_assessment,  \* what calculate_risk_score returned
    critical_emails,  \* what identify_critical_emails returned
    sent_emails,      \* analyze_sentiment: the emails argument
    sentiment_available, \* whether the ML sentiment pipeline was loaded
    spc,              \* analyze_sentiment: position
    si,               \* analyze_sentiment: emails the loop has handled
    sentiments,       \* analyze_sentiment: the local list of entries
    ml_calls,         \* history: per email handled, how the ML call went
    sentiment_analysis, \* what analyze_sentiment returned
    port,             \* session: the configured port (self.port)
    conn,             \* session: self.mail, by the state of its IMAP4 object
    connect_result,   \* session: what connect() returned
    commands,         \* history: the connections tried and the commands
                      \* issued on self.mail, each with its outcome
    bpc,              \* bot: position in process_buttons
    connect_requests_sent, \* bot: process_buttons' counter
    working,          \* bot: process_buttons' loop flag
    page,             \* bot: the result page shown, counted from 1
    nbuttons,         \* bot: len(buttons) found on the page
    button,           \* bot: buttons of the page already iterated
    after_limit,      \* history: buttons handled with the limit reached
    hpc,              \* retry: position in handle_connect_button_with_retry
    retry_count,      \* retry: its counter
    attempts,         \* history: for each attempt of the call, the step
                      \* that raised (0 when none did)
    sent              \* retry: what the call returned

vars == <<kind, mailbox, project_filters, pc, i, project_data, fetched, result,
          summary, run, first_fetched, first_summary,
          emails_in, sentiment_in, rpc, risk_assessment, critical_emails,
          sent_emails, sentiment_available, spc, si, sentiments, ml_calls,
          sentiment_analysis, port, conn, connect_result, commands,
          bpc, connect_requests_sent, working, page, nbuttons, button, after_limit,
          hpc, retry_count, attempts, sent>>

runVars == <<run, first_fetched, first_summary>>

pipeVars == <<kind, mailbox, project_filters, pc, i, project_data, fetched,
              result, summary, run, first_fetched, first_summary>>

riskVars == <<emails_in, sentiment_in, rpc, risk_assessment, critical_emails>>

sentVars == <<sent_emails, sentiment_available, spc, si, sentiments, ml_calls,
              sentiment_analysis>>

sessVars == <<port, conn, connect_result, commands>>

botVars == <<bpc, connect_requests_sent, working, page, nbuttons, button,
             after_limit, hpc, retry_count, attempts, sent>>

NoValue == "<unset>"

\* neither process_buttons nor handle_connect_button_with_retry is running
BotIdle ==
    /\ bpc = "idle"
    /\ connect_requests_sent = 0
    /\ working = TRUE
    /\ page = 1
    /\ nbuttons = 0
    /\ button = 0
    /\ after_limit = 0
    /\ hpc = "idle"
    /\ retry_count = 0
    /\ attempts = <<>>
    /\ sent = NoValue

\* no connect() has been called: self.mail is None
SessIdle ==
    /\ port = 993
    /\ conn = "none"
    /\ connect_result = NoValue
    /\ commands = <<>>

SentIdle ==
    /\ sent_emails = <<>>
    /\ sentiment_available = FALSE
    /\ spc = "idle"
    /\ si = 0
    /\ sentiments = <<>>
    /\ ml_calls = <<>>
    /\ sentiment_analysis = NoValue

RiskIdle ==
    /\ emails_in = <<>>
    /\ sentiment_in = ("tendance" :> "Neutre")
    /\ rpc = "idle"
    /\ risk_assessment = NoValue
    /\ critical_emails = NoValue

PipeIdle ==
    /\ kind = "ml"
    /\ mailbox = <<>>
    /\ project_filters = <<>>
    /\ pc = "idle"
    /\ i = 0
    /\ project_data = <<>>
    /\ fetched = <<>>
    /\ result = NoValue
    /\ summary = NoValue
    /\ run = 1
    /\ first_fetched = NoValue
    /\ first_summary = NoValue

(***************************************************************************)
(* The analysis run: search_project_emails, then generate_summary          *)
(***************************************************************************)
Init ==
    /\ kind \in {"keyword", "ml"}
    /\ mailbox \in Mailboxes
    /\ project_filters \in FilterLists
    /\ pc = "search"
    /\ i = 0
    /\ project_data = <<>>
    /\ fetched = <<>>
    /\ result = NoValue
    /\ summary = NoValue
    /\ run = 1
    /\ first_fetched = NoValue
    /\ first_summary = NoValue
    /\ RiskIdle
    /\ SentIdle
    /\ SessIdle
    /\ BotIdle

\* select('INBOX') or the SEARCH is refused, or raises: return {}
SearchFails ==
    /\ pc = "search"
    /\ pc' = "returned"
    /\ result' = <<>>
    /\ UNCHANGED <<kind, mailbox, project_filters, i, project_data, fetched, summary>>
    /\ UNCHANGED runVars
    /\ UNCHANGED riskVars
    /\ UNCHANGED sentVars
    /\ UNCHANGED sessVars
    /\ UNCHANGED botVars

\* the SEARCH answers; the keyword variant returns {} at once when it finds
\* no message
SearchOk ==
    /\ pc = "search"
    /\ IF kind = "keyword" /\ mailbox = <<>>
       THEN pc' = "returned" /\ result' = <<>>
       ELSE pc' = "loop" /\ result' = result
    /\ UNCHANGED <<kind, mailbox, project_filters, i, project_data, fetched, summary>>
    /\ UNCHANGED runVars
    /\ UNCHANGED riskVars
    /\ UNCHANGED sentVars
    /\ UNCHANGED sessVars
    /\ UNCHANGED botVars

\* mutant: the failure of one message ends the search
SkipEmailAborts ==
    /\ pc = "loop"
    /\ i < Len(mailbox)
    /\ i' = i + 1
    /\ pc' = "returned"
    /\ result' = <<>>
    /\ UNCHANGED <<kind, mailbox, project_filters, project_data, fetched, summary>>
    /\ UNCHANGED runVars
    /\ UNCHANGED riskVars
    /\ UNCHANGED sentVars
    /\ UNCHANGED sessVars
    /\ UNCHANGED botVars

\* one turn of the loop in which the FETCH is not OK, or the parsing or the
\* extraction of the message raises: the message is skipped
SkipEmail ==
    /\ pc = "loop"
    /\ i < Len(mailbox)
    /\ i' = i + 1
    /\ UNCHANGED <<kind, mailbox, project_filters, pc, project_data, fetched,
                   result, summary>>
    /\ UNCHANGED runVars
    /\ UNCHANGED riskVars
    /\ UNCHANGED sentVars
    /\ UNCHANGED sessVars
    /\ UNCHANGED botVars

\* one turn of the loop that extracts the message and files it
ProcessEmail ==
    /\ pc = "loop"
    /\ i < Len(mailbox)
    /\ i' = i + 1
    /\ fetched' = Append(fetched, mailbox[i + 1])
    /\ project_data' = Classify(project_data, mailbox[i + 1], project_filters, kind)
    /\ UNCHANGED <<kind, mailbox, project_filters, pc, result, summary>>
    /\ UNCHANGED runVars
    /\ UNCHANGED riskVars
    /\ UNCHANGED sentVars
    /\ UNCHANGED sessVars
    /\ UNCHANGED botVars

\* return dict(project_data)
SearchReturns ==
    /\ pc = "loop"
    /\ i = Len(mailbox)
    /\ pc' = "returned"
    /\ result' = project_data
    /\ UNCHANGED <<kind, mailbox, project_filters, i, project_data, fetched, summary>>
    /\ UNCHANGED runVars
    /\ UNCHANGED riskVars
    /\ UNCHANGED sentVars
    /\ UNCHANGED sessVars
    /\ UNCHANGED botVars

\* main: `if not project_data: return`, else summary = generate_summary(...)
Summarize ==
    /\ pc = "returned"
    /\ kind = "keyword"
    /\ result # <<>>
    /\ \E orders \in SetOrders(result) : summary' = generate_summary(result, orders)
    /\ pc' = "done"
    /\ UNCHANGED <<kind, mailbox, project_filters, i, project_data, fetched, result>>
    /\ UNCHANGED runVars
    /\ UNCHANGED riskVars
    /\ UNCHANGED sentVars
    /\ UNCHANGED sessVars
    /\ UNCHANGED botVars

Next ==
    \/ SearchFails
    \/ SearchOk
    \/ SkipEmail
    \/ ProcessEmail
    \/ SearchReturns
    \/ Summarize

Spec == Init /\ [][Next]_vars

(***************************************************************************)
(* The program run twice on the same mailbox with the same --projects: the *)
(* second run is a new interpreter, which starts from nothing              *)
(***************************************************************************)
InitTwice ==
    /\ kind = "keyword"
    /\ mailbox \in MailboxesTwice
    /\ project_filters \in FilterLists
    /\ pc = "search"
    /\ i = 0
    /\ project_data = <<>>
    /\ fetched = <<>>
    /\ result = NoValue
    /\ summary = NoValue
    /\ run = 1
    /\ first_fetched = NoValue
    /\ first_summary = NoValue
    /\ RiskIdle
    /\ SentIdle
    /\ SessIdle
    /\ BotIdle

\* the first run has printed its summary; the program is started again
RunAgain ==
    /\ pc = "done"
    /\ run = 1
    /\ run' = 2
    /\ first_fetched' = fetched
    /\ first_summary' = summary
    /\ pc' = "search"
    /\ i' = 0
    /\ project_data' = <<>>
    /\ fetched' = <<>>
    /\ result' = NoValue
    /\ summary' = NoValue
    /\ UNCHANGED <<kind, mailbox, project_filters>>
    /\ UNCHANGED riskVars
    /\ UNCHANGED sentVars
    /\ UNCHANGED sessVars
    /\ UNCHANGED botVars

NextTwice ==
    \/ Next
    \/ RunAgain

SpecTwice == InitTwice /\ [][NextTwice]_vars

(***************************************************************************)
(* search_project_emails called as a method: main's argument parser         *)
(* (`--projects`, required, nargs='+') lets no empty list through, a direct  *)
(* caller may pass one                                                      *)
(***************************************************************************)
InitApi ==
    /\ kind \in {"keyword", "ml"}
    /\ mailbox \in MailboxesTwice
    /\ project_filters \in FilterLists \cup {<<>>}
    /\ pc = "search"
    /\ i = 0
    /\ project_data = <<>>
    /\ fetched = <<>>
    /\ result = NoValue
    /\ summary = NoValue
    /\ run = 1
    /\ first_fetched = NoValue
    /\ first_summary = NoValue
    /\ RiskIdle
    /\ SentIdle
    /\ SessIdle
    /\ BotIdle

SpecApi == InitApi /\ [][Next]_vars

(***************************************************************************)
(* The keyword variant on messages that differ in their Date header only,   *)
(* all of project Atlas: the date range of the summary                      *)
(***************************************************************************)
DateSamples ==
    {"Mon, 02 Jun 2025 10:00:00 +0000",
     "Mon, 02 Jun 2025 23:30:00 +0000",
     "Tue, 03 Jun 2025 00:30:00 +0200 (CEST)",
     "Wed, 04 Jun 2025 09:30:00 +0200 (CEST)",
     PyNone,
     "not a date"}

DateMessages ==
    {[subject |-> "Atlas", from |-> "a@x.com", to |-> "", date |-> d,
      body |-> "planning"] : d \in DateSamples}

InitDates ==
    /\ kind = "keyword"
    /\ mailbox \in SeqsUpTo(DateMessages, MaxEmails)
    /\ project_filters = <<"Atlas">>
    /\ pc = "search"
    /\ i = 0
    /\ project_data = <<>>
    /\ fetched = <<>>
    /\ result = NoValue
    /\ summary = NoValue
    /\ run = 1
    /\ first_fetched = NoValue
    /\ first_summary = NoValue
    /\ RiskIdle
    /\ SentIdle
    /\ SessIdle
    /\ BotIdle

SpecDates == InitDates /\ [][Next]_vars

(***************************************************************************)
(* The risk scorer and the critical-email ranker on their own              *)
(***************************************************************************)
InitRisk ==
    /\ emails_in \in RiskInputs
    /\ sentiment_in \in SentimentInputs
    /\ rpc = "input"
    /\ risk_assessment = NoValue
    /\ critical_emails = NoValue
    /\ PipeIdle
    /\ SentIdle
    /\ SessIdle
    /\ BotIdle

CalculateRisk ==
    /\ rpc = "input"
    /\ risk_assessment' = calculate_risk_score(emails_in, sentiment_in)
    /\ rpc' = "scored"
    /\ UNCHANGED <<emails_in, sentiment_in, critical_emails>>
    /\ UNCHANGED pipeVars
    /\ UNCHANGED sentVars
    /\ UNCHANGED sessVars
    /\ UNCHANGED botVars

IdentifyCritical ==
    /\ rpc = "scored"
    /\ critical_emails' = identify_critical_emails(emails_in)
    /\ rpc' = "ranked"
    /\ UNCHANGED <<emails_in, sentiment_in, risk_assessment>>
    /\ UNCHANGED pipeVars
    /\ UNCHANGED sentVars
    /\ UNCHANGED sessVars
    /\ UNCHANGED botVars

NextRisk ==
    \/ CalculateRisk
    \/ IdentifyCritical

SpecRisk == InitRisk /\ [][NextRisk]_vars

(***************************************************************************)
(* analyze_sentiment on its own: the loop over the emails, one turn per    *)
(* step, then the statistics                                               *)
(***************************************************************************)
InitSentiment ==
    /\ sent_emails \in SentimentMailboxes
    /\ sentiment_available \in BOOLEAN
    /\ spc = "loop"
    /\ si = 0
    /\ sentiments = <<>>
    /\ ml_calls = <<>>
    /\ sentiment_analysis = NoValue
    /\ PipeIdle
    /\ RiskIdle
    /\ SessIdle
    /\ BotIdle

\* `if not text.strip(): continue`
SkipBlank ==
    /\ spc = "loop"
    /\ si < Len(sent_emails)
    /\ Blank(SentimentText(sent_emails[si + 1]))
    /\ si' = si + 1
    /\ ml_calls' = Append(ml_calls, "skipped")
    /\ UNCHANGED <<sent_emails, sentiment_available, spc, sentiments,
                   sentiment_analysis>>
    /\ UNCHANGED pipeVars
    /\ UNCHANGED riskVars
    /\ UNCHANGED sessVars
    /\ UNCHANGED botVars

\* the pipeline answers: its label and its score are recorded as they come
AnalyzeML ==
    /\ spc = "loop"
    /\ si < Len(sent_emails)
    /\ ~Blank(SentimentText(sent_emails[si + 1]))
    /\ sentiment_available
    /\ \E label \in MLLabels, score \in MLScores :
          sentiments' = Append(sentiments,
              SentimentEntry(sent_emails[si + 1],
                             [label |-> label, score |-> score], "ML"))
    /\ si' = si + 1
    /\ ml_calls' = Append(ml_calls, "answered")
    /\ UNCHANGED <<sent_emails, sentiment_available, spc, sentiment_analysis>>
    /\ UNCHANGED pipeVars
    /\ UNCHANGED riskVars
    /\ UNCHANGED sessVars
    /\ UNCHANGED botVars

\* the pipeline raises: the inner except falls back on the keyword scorer
AnalyzeMLRaises ==
    /\ spc = "loop"
    /\ si < Len(sent_emails)
    /\ ~Blank(SentimentText(sent_emails[si + 1]))
    /\ sentiment_available
    /\ sentiments' = Append(sentiments,
          SentimentEntry(sent_emails[si + 1],
                         analyze_sentiment_basic(SentimentText(sent_emails[si + 1])),
                         "Basic"))
    /\ si' = si + 1
    /\ ml_calls' = Append(ml_calls, "raised")
    /\ UNCHANGED <<sent_emails, sentiment_available, spc, sentiment_analysis>>
    /\ UNCHANGED pipeVars
    /\ UNCHANGED riskVars
    /\ UNCHANGED sessVars
    /\ UNCHANGED botVars

\* no pipeline was loaded: the keyword scorer
AnalyzeBasic ==
    /\ spc = "loop"
    /\ si < Len(sent_emails)
    /\ ~Blank(SentimentText(sent_emails[si + 1]))
    /\ ~sentiment_available
    /\ sentiments' = Append(sentiments,
          SentimentEntry(sent_emails[si + 1],
                         analyze_sentiment_basic(SentimentText(sent_emails[si + 1])),
                         "Basic"))
    /\ si' = si + 1
    /\ ml_calls' = Append(ml_calls, "absent")
    /\ UNCHANGED <<sent_emails, sentiment_available, spc, sentiment_analysis>>
    /\ UNCHANGED pipeVars
    /\ UNCHANGED riskVars
    /\ UNCHANGED sessVars
    /\ UNCHANGED botVars

\* after the loop: the statistics, or {"emails_analysés": 0}
SentimentReturns ==
    /\ spc = "loop"
    /\ si = Len(sent_emails)
    /\ sentiment_analysis' = SentimentStats(sentiments, sentiment_available)
    /\ spc' = "returned"
    /\ UNCHANGED <<sent_emails, sentiment_available, si, sentiments, ml_calls>>
    /\ UNCHANGED pipeVars
    /\ UNCHANGED riskVars
    /\ UNCHANGED sessVars
    /\ UNCHANGED botVars

NextSentiment ==
    \/ SkipBlank
    \/ AnalyzeML
    \/ AnalyzeMLRaises
    \/ AnalyzeBasic
    \/ SentimentReturns

SpecSentiment == InitSentiment /\ [][NextSentiment]_vars

(***************************************************************************)
(* The IMAP session of one run: connect, search_project_emails, disconnect *)
(* as main calls them (pc starts at "start"), or search_project_emails     *)
(* called on an analyzer that never connected (pc starts at "search").     *)
(* The server and the network choose the outcome of every connection and   *)
(* of every command.  imaplib refuses a command that is illegal in the     *)
(* state of the connection by raising IMAP4.error before sending anything: *)
(* CLOSE is legal only in the SELECTED state.                              *)
(***************************************************************************)
\* --port: 993 unless given; --no-ssl turns the default into 143
Ports == {993, 143}

Outcomes == {"OK", "NO", "raise"}

Issued(cmd, arg, status) == [cmd |-> cmd, arg |-> arg, status |-> status]

InitSession ==
    /\ kind \in {"keyword", "ml"}
    /\ mailbox \in MailboxesTwice
    /\ project_filters \in FilterLists
    /\ pc \in {"start", "search"}
    /\ i = 0
    /\ project_data = <<>>
    /\ fetched = <<>>
    /\ result = NoValue
    /\ summary = NoValue
    /\ run = 1
    /\ first_fetched = NoValue
    /\ first_summary = NoValue
    /\ RiskIdle
    /\ SentIdle
    /\ BotIdle
    /\ port \in Ports
    /\ conn = "none"
    /\ connect_result = NoValue
    /\ commands = <<>>

\* connect: self.mail = imaplib.IMAP4_SSL(self.imap_server, self.port)
ConnectSSL ==
    /\ pc = "start"
    /\ \E ok \in BOOLEAN :
         /\ commands' = Append(commands,
                Issued("IMAP4_SSL", port, IF ok THEN "OK" ELSE "raise"))
         /\ conn' = IF ok THEN "NONAUTH" ELSE "none"
         /\ pc' = IF ok THEN "login" ELSE "plain"
    /\ UNCHANGED <<port, connect_result>>
    /\ UNCHANGED <<kind, mailbox, project_filters, i, project_data, fetched,
                   result, summary>>
    /\ UNCHANGED runVars
    /\ UNCHANGED riskVars
    /\ UNCHANGED sentVars
    /\ UNCHANGED botVars

\* connect, the SSL attempt raised: self.mail = imaplib.IMAP4(server, 143);
\* when this raises too the outer handler returns False and main goes to
\* its finally clause
ConnectPlain ==
    /\ pc = "plain"
    /\ \E ok \in BOOLEAN :
         /\ commands' = Append(commands,
                Issued("IMAP4", 143, IF ok THEN "OK" ELSE "raise"))
         /\ conn' = IF ok THEN "NONAUTH" ELSE "none"
         /\ connect_result' = IF ok THEN connect_result ELSE "False"
         /\ pc' = IF ok THEN "login" ELSE "finally"
    /\ UNCHANGED port
    /\ UNCHANGED <<kind, mailbox, project_filters, i, project_data, fetched,
                   result, summary>>
    /\ UNCHANGED runVars
    /\ UNCHANGED riskVars
    /\ UNCHANGED sentVars
    /\ UNCHANGED botVars

\* mutant: connect answers True whatever LOGIN said
LoginUnchecked ==
    /\ pc = "login"
    /\ \E status \in {"OK", "raise"} :
         /\ commands' = Append(commands, Issued("LOGIN", "", status))
         /\ conn' = IF status = "OK" THEN "AUTH" ELSE conn
    /\ connect_result' = "True"
    /\ pc' = "search"
    /\ UNCHANGED port
    /\ UNCHANGED <<kind, mailbox, project_filters, i, project_data, fetched,
                   result, summary>>
    /\ UNCHANGED runVars
    /\ UNCHANGED riskVars
    /\ UNCHANGED sentVars
    /\ UNCHANGED botVars

\* connect: self.mail.login(...); return True.  A refused LOGIN raises
\* IMAP4.error: connect returns False, self.mail stays set, and main
\* (`if not analyzer.connect(): return`) goes to its finally clause
Login ==
    /\ pc = "login"
    /\ \E status \in {"OK", "raise"} :
         /\ commands' = Append(commands, Issued("LOGIN", "", status))
         /\ conn' = IF status = "OK" THEN "AUTH" ELSE conn
         /\ connect_result' = IF status = "OK" THEN "True" ELSE "False"
         /\ pc' = IF status = "OK" THEN "search" ELSE "finally"
    /\ UNCHANGED port
    /\ UNCHANGED <<kind, mailbox, project_filters, i, project_data, fetched,
                   result, summary>>
    /\ UNCHANGED runVars
    /\ UNCHANGED riskVars
    /\ UNCHANGED sentVars
    /\ UNCHANGED botVars

\* search_project_emails: `if not self.mail: return {}`
SearchNoConnection ==
    /\ pc = "search"
    /\ conn = "none"
    /\ pc' = "returned"
    /\ result' = <<>>
    /\ UNCHANGED <<kind, mailbox, project_filters, i, project_data, fetched, summary>>
    /\ UNCHANGED runVars
    /\ UNCHANGED riskVars
    /\ UNCHANGED sentVars
    /\ UNCHANGED sessVars
    /\ UNCHANGED botVars

\* mutant: the status of SELECT is not looked at
SelectInboxUnchecked ==
    /\ pc = "search"
    /\ conn # "none"
    /\ \E status \in Outcomes :
         /\ commands' = Append(commands, Issued("SELECT", "INBOX", status))
         /\ conn' = IF status = "OK" THEN "SELECTED" ELSE conn
         /\ pc' = IF status = "raise" THEN "returned" ELSE "uidsearch"
         /\ result' = IF status = "raise" THEN <<>> ELSE result
    /\ UNCHANGED <<port, connect_result>>
    /\ UNCHANGED <<kind, mailbox, project_filters, i, project_data, fetched, summary>>
    /\ UNCHANGED runVars
    /\ UNCHANGED riskVars
    /\ UNCHANGED sentVars
    /\ UNCHANGED botVars

\* search_project_emails: status, count = self.mail.select('INBOX');
\* `if status != 'OK': return {}`; an exception reaches the outer handler,
\* which returns {}
SelectInbox ==
    /\ pc = "search"
    /\ conn # "none"
    /\ \E status \in Outcomes :
         /\ commands' = Append(commands, Issued("SELECT", "INBOX", status))
         /\ conn' = IF status = "OK" THEN "SELECTED" ELSE conn
         /\ pc' = IF status = "OK" THEN "uidsearch" ELSE "returned"
         /\ result' = IF status = "OK" THEN result ELSE <<>>
    /\ UNCHANGED <<port, connect_result>>
    /\ UNCHANGED <<kind, mailbox, project_filters, i, project_data, fetched, summary>>
    /\ UNCHANGED runVars
    /\ UNCHANGED riskVars
    /\ UNCHANGED sentVars
    /\ UNCHANGED botVars

\* search_project_emails: the SEARCH command; `if status != 'OK': return {}`,
\* and in the keyword variant `if not email_uids: return {}`
SearchCommand ==
    /\ pc = "uidsearch"
    /\ \E status \in Outcomes :
         /\ commands' = Append(commands, Issued("SEARCH", "", status))
         /\ IF status # "OK" \/ (kind = "keyword" /\ mailbox = <<>>)
            THEN pc' = "returned" /\ result' = <<>>
            ELSE pc' = "loop" /\ result' = result
    /\ UNCHANGED <<port, conn, connect_result>>
    /\ UNCHANGED <<kind, mailbox, project_filters, i, project_data, fetched, summary>>
    /\ UNCHANGED runVars
    /\ UNCHANGED riskVars
    /\ UNCHANGED sentVars
    /\ UNCHANGED botVars

\* main's finally clause: analyzer.disconnect(), reached when connect
\* returned False, when the search returned nothing, and after the summary.
\* disconnect: `if self.mail:` try close() then logout(), any exception
\* swallowed.  close() outside the SELECTED state is refused by imaplib and
\* sends nothing; a close() that raises leaves logout() uncalled.
Disconnect ==
    /\ connect_result # NoValue
    /\ \/ pc \in {"finally", "done"}
       \/ pc = "returned" /\ (kind = "ml" \/ result = <<>>)
    /\ pc' = "exited"
    /\ IF conn = "none"
       THEN UNCHANGED <<conn, commands>>
       ELSE \E closed \in (IF conn = "SELECTED" THEN {"OK", "raise"} ELSE {"raise"}),
               left \in {"OK", "raise"} :
              /\ commands' = commands
                     \o (IF conn = "SELECTED"
                         THEN <<Issued("CLOSE", "", closed)>> ELSE <<>>)
                     \o (IF closed = "OK"
                         THEN <<Issued("LOGOUT", "", left)>> ELSE <<>>)
              /\ conn' = IF closed = "OK" THEN "LOGOUT" ELSE conn
    /\ UNCHANGED <<port, connect_result>>
    /\ UNCHANGED <<kind, mailbox, project_filters, i, project_data, fetched,
                   result, summary>>
    /\ UNCHANGED runVars
    /\ UNCHANGED riskVars
    /\ UNCHANGED sentVars
    /\ UNCHANGED botVars

NextSession ==
    \/ ConnectSSL
    \/ ConnectPlain
    \/ Login
    \/ SearchNoConnection
    \/ SelectInbox
    \/ SearchCommand
    \/ SkipEmail
    \/ ProcessEmail
    \/ SearchReturns
    \/ Summarize
    \/ Disconnect

SpecSession == InitSession /\ [][NextSession]_vars

(***************************************************************************)
(* The LinkedIn bot: process_buttons over the result pages, and            *)
(* handle_connect_button_with_retry for one button.  The browser chooses   *)
(* what each page holds, the text of each button when it is read, whether  *)
(* a next page exists, and which step of an attempt raises.                *)
(***************************************************************************)
MAX_RETRIES == 5

MAX_CONNECT_REQUESTS == 20

\* the most buttons on one page, and the most pages of one search
MaxButtons == 4

MaxPages == 6

\* button.text as the browser gives it
ButtonTexts == {"Se connecter", " se connecter\n", "Suivre", "Message", ""}

\* str.strip(): leading and trailing whitespace removed
strip(s) ==
    LET inked == {k \in 1..Len(s) : SubSeq(s, k, k) \notin Whitespace}
    IN  IF inked = {} THEN "" ELSE SubSeq(s, SetMin(inked), SetMax(inked))

\* button.text.strip().lower()
ButtonText(raw) == lower(strip(raw))

InitBot ==
    /\ PipeIdle
    /\ RiskIdle
    /\ SentIdle
    /\ SessIdle
    /\ bpc = "page"
    /\ connect_requests_sent = 0
    /\ working = TRUE
    /\ page = 1
    /\ nbuttons = 0
    /\ button = 0
    /\ after_limit = 0
    /\ hpc = "idle"
    /\ retry_count = 0
    /\ attempts = <<>>
    /\ sent = NoValue

\* `while working:` holds; buttons = driver.find_elements(By.TAG_NAME, "button")
FindButtons ==
    /\ bpc = "page"
    /\ working
    /\ \E n \in 0..MaxButtons : nbuttons' = n
    /\ button' = 0
    /\ bpc' = "buttons"
    /\ UNCHANGED <<connect_requests_sent, working, page, after_limit>>
    /\ UNCHANGED <<hpc, retry_count, attempts, sent>>
    /\ UNCHANGED pipeVars
    /\ UNCHANGED riskVars
    /\ UNCHANGED sentVars
    /\ UNCHANGED sessVars

\* mutant: the limit is logged, the loops go on
HandleConnectNoBreak ==
    /\ bpc = "buttons"
    /\ button < nbuttons
    /\ \E raw \in ButtonTexts : ButtonText(raw) = "se connecter"
    /\ connect_requests_sent < MAX_CONNECT_REQUESTS
    /\ connect_requests_sent' = connect_requests_sent + 1
    /\ button' = button + 1
    /\ UNCHANGED <<bpc, working, page, nbuttons, after_limit>>
    /\ UNCHANGED <<hpc, retry_count, attempts, sent>>
    /\ UNCHANGED pipeVars
    /\ UNCHANGED riskVars
    /\ UNCHANGED sentVars
    /\ UNCHANGED sessVars

\* one turn of `for button in buttons` on a Connect button below the limit:
\* handle_connect_button_with_retry is called (it returns True or False and
\* neither is looked at), the counter goes up, and at the limit
\* working = False and the for loop is left
HandleConnect ==
    /\ bpc = "buttons"
    /\ button < nbuttons
    /\ \E raw \in ButtonTexts : ButtonText(raw) = "se connecter"
    /\ connect_requests_sent < MAX_CONNECT_REQUESTS
    /\ connect_requests_sent' = connect_requests_sent + 1
    /\ IF connect_requests_sent + 1 >= MAX_CONNECT_REQUESTS
       THEN working' = FALSE /\ bpc' = "next" /\ button' = button
       ELSE working' = working /\ bpc' = bpc /\ button' = button + 1
    /\ UNCHANGED <<page, nbuttons, after_limit>>
    /\ UNCHANGED <<hpc, retry_count, attempts, sent>>
    /\ UNCHANGED pipeVars
    /\ UNCHANGED riskVars
    /\ UNCHANGED sentVars
    /\ UNCHANGED sessVars

\* one turn on a Follow button: handle_follow_button clicks it and swallows
\* every exception
HandleFollow ==
    /\ bpc = "buttons"
    /\ button < nbuttons
    /\ \E raw \in ButtonTexts : ButtonText(raw) = "suivre"
    /\ button' = button + 1
    /\ after_limit' = after_limit
           + (IF connect_requests_sent >= MAX_CONNECT_REQUESTS THEN 1 ELSE 0)
    /\ UNCHANGED <<bpc, connect_requests_sent, working, page, nbuttons>>
    /\ UNCHANGED <<hpc, retry_count, attempts, sent>>
    /\ UNCHANGED pipeVars
    /\ UNCHANGED riskVars
    /\ UNCHANGED sentVars
    /\ UNCHANGED sessVars

\* one turn on any other button, or on a Connect button with the limit
\* reached: nothing is done
SkipButton ==
    /\ bpc = "buttons"
    /\ button < nbuttons
    /\ \E raw \in ButtonTexts :
         /\ ButtonText(raw) # "suivre"
         /\ ~(ButtonText(raw) = "se connecter"
              /\ connect_requests_sent < MAX_CONNECT_REQUESTS)
    /\ button' = button + 1
    /\ UNCHANGED <<bpc, connect_requests_sent, working, page, nbuttons, after_limit>>
    /\ UNCHANGED <<hpc, retry_count, attempts, sent>>
    /\ UNCHANGED pipeVars
    /\ UNCHANGED riskVars
    /\ UNCHANGED sentVars
    /\ UNCHANGED sessVars

\* the for loop has seen every button of the page
ButtonsDone ==
    /\ bpc = "buttons"
    /\ button = nbuttons
    /\ bpc' = "next"
    /\ UNCHANGED <<connect_requests_sent, working, page, nbuttons, button, after_limit>>
    /\ UNCHANGED <<hpc, retry_count, attempts, sent>>
    /\ UNCHANGED pipeVars
    /\ UNCHANGED riskVars
    /\ UNCHANGED sentVars
    /\ UNCHANGED sessVars

\* `if not go_to_next_page(driver): break`, else scroll down and test
\* `while working` again
NextPage ==
    /\ bpc = "next"
    /\ \E ok \in (IF page < MaxPages THEN BOOLEAN ELSE {FALSE}) :
         /\ page' = IF ok THEN page + 1 ELSE page
         /\ bpc' = IF ok THEN "page" ELSE "exited"
    /\ UNCHANGED <<connect_requests_sent, working, nbuttons, button, after_limit>>
    /\ UNCHANGED <<hpc, retry_count, attempts, sent>>
    /\ UNCHANGED pipeVars
    /\ UNCHANGED riskVars
    /\ UNCHANGED sentVars
    /\ UNCHANGED sessVars

\* `while working:` fails
WhileEnds ==
    /\ bpc = "page"
    /\ ~working
    /\ bpc' = "exited"
    /\ UNCHANGED <<connect_requests_sent, working, page, nbuttons, button, after_limit>>
    /\ UNCHANGED <<hpc, retry_count, attempts, sent>>
    /\ UNCHANGED pipeVars
    /\ UNCHANGED riskVars
    /\ UNCHANGED sentVars
    /\ UNCHANGED sessVars

\* find_elements or button.text raises (a stale element): the handler
\* around the whole of process_buttons logs it and the function ends
ProcessRaises ==
    /\ \/ bpc = "page" /\ working
       \/ bpc = "buttons" /\ button < nbuttons
    /\ bpc' = "exited"
    /\ UNCHANGED <<connect_requests_sent, working, page, nbuttons, button, after_limit>>
    /\ UNCHANGED <<hpc, retry_count, attempts, sent>>
    /\ UNCHANGED pipeVars
    /\ UNCHANGED riskVars
    /\ UNCHANGED sentVars
    /\ UNCHANGED sessVars

NextBot ==
    \/ FindButtons
    \/ HandleConnect
    \/ HandleFollow
    \/ SkipButton
    \/ ButtonsDone
    \/ NextPage
    \/ WhileEnds
    \/ ProcessRaises

SpecBot == InitBot /\ [][NextBot]_vars

\* a call of handle_connect_button_with_retry: retry_count = 0
InitRetry ==
    /\ PipeIdle
    /\ RiskIdle
    /\ SentIdle
    /\ SessIdle
    /\ bpc = "idle"
    /\ connect_requests_sent = 0
    /\ working = TRUE
    /\ page = 1
    /\ nbuttons = 0
    /\ button = 0
    /\ after_limit = 0
    /\ hpc = "loop"
    /\ retry_count = 0
    /\ attempts = <<>>
    /\ sent = NoValue

\* mutant: one attempt more
RetryAgainInclusive(count) == count <= MAX_RETRIES

\* while retry_count < MAX_RETRIES
RetryAgain(count) == count < MAX_RETRIES

\* one attempt in which the four steps go through: click the button, click
\* "Ajouter une note", fill the message, click "Envoyer"; return True
AttemptSucceeds ==
    /\ hpc = "loop"
    /\ RetryAgain(retry_count)
    /\ attempts' = Append(attempts, 0)
    /\ sent' = "True"
    /\ hpc' = "returned"
    /\ UNCHANGED retry_count
    /\ UNCHANGED <<bpc, connect_requests_sent, working, page, nbuttons, button,
                   after_limit>>
    /\ UNCHANGED pipeVars
    /\ UNCHANGED riskVars
    /\ UNCHANGED sentVars
    /\ UNCHANGED sessVars

\* one attempt in which a step raises: each of the four handlers
\* (StaleElementReferenceException, ElementClickInterceptedException,
\* TimeoutException, Exception) adds one to retry_count and the loop goes on
AttemptRaises ==
    /\ hpc = "loop"
    /\ RetryAgain(retry_count)
    /\ \E step \in 1..4 : attempts' = Append(attempts, step)
    /\ retry_count' = retry_count + 1
    /\ UNCHANGED <<hpc, sent>>
    /\ UNCHANGED <<bpc, connect_requests_sent, working, page, nbuttons, button,
                   after_limit>>
    /\ UNCHANGED pipeVars
    /\ UNCHANGED riskVars
    /\ UNCHANGED sentVars
    /\ UNCHANGED sessVars

\* the while loop ends: log the failure, return False
GiveUp ==
    /\ hpc = "loop"
    /\ ~RetryAgain(retry_count)
    /\ sent' = "False"
    /\ hpc' = "returned"
    /\ UNCHANGED <<retry_count, attempts>>
    /\ UNCHANGED <<bpc, connect_requests_sent, working, page, nbuttons, button,
                   after_limit>>
    /\ UNCHANGED pipeVars
    /\ UNCHANGED riskVars
    /\ UNCHANGED sentVars
    /\ UNCHANGED sessVars

NextRetry ==
    \/ AttemptSucceeds
    \/ AttemptRaises
    \/ GiveUp

SpecRetry == InitRetry /\ [][NextRetry]_vars

(***************************************************************************)
(* Properties of the risk scorer (checked under SpecRisk)                  *)
(***************************************************************************)
Scored == rpc \in {"scored", "ranked"}

\* the (record, risk term) pairs in which the term occurs in the record's
\* lowercased subject + ' ' + body
RiskPairs(emails) ==
    {pair \in (1..Len(emails)) \X (1..Len(risk_keywords)) :
        Contains(risk_keywords[pair[2]].keyword, lower(SubjectBody(emails[pair[1]])))}

\* the weights of the terms summed over the pairs: a pair of weight w is
\* counted once for each unit 1..w
PairWeightSum(pairs) ==
    Cardinality({t \in pairs \X (1..3) : t[2] <= risk_keywords[t[1][2]].weight})

\* S + K + V of the additive score
ExpectedRawScore(emails, sentiment_data) ==
    (IF "tendance" \in DOMAIN sentiment_data
        /\ sentiment_data["tendance"] = "Négative" THEN 30 ELSE 0)
    + 3 * PairWeightSum(RiskPairs(emails))
    + (IF Len(emails) > 50 THEN 10 ELSE IF Len(emails) < 3 THEN 15 ELSE 0)

\* C1: whatever the emails and the sentiment summary, the score_risque that
\* calculate_risk_score returns lies between 0 and 100.
C1_ScoreBounded ==
    Scored => /\ risk_assessment.score_risque >= 0
              /\ risk_assessment.score_risque <= 100

\* the additive score exceeded 100 and was clamped
C1_Witness ==
    /\ Scored
    /\ ExpectedRawScore(emails_in, sentiment_in) > 100
    /\ risk_assessment.score_risque = 100

\* C2: the level reported agrees with the score reported: CRITIQUE iff the
\* score is >= 60, MODÉRÉ iff it is in 30..59, FAIBLE iff it is below 30, and
\* the level is one of these three.
C2_LevelMatchesScore ==
    Scored =>
        LET score == risk_assessment.score_risque
            level == risk_assessment.niveau_risque
        IN  /\ level \in {"CRITIQUE", "MODÉRÉ", "FAIBLE"}
            /\ (level = "CRITIQUE") <=> (score >= 60)
            /\ (level = "MODÉRÉ") <=> (score >= 30 /\ score < 60)
            /\ (level = "FAIBLE") <=> (score < 30)

\* a score on the CRITIQUE threshold itself
C2_Witness ==
    /\ Scored
    /\ risk_assessment.score_risque = 60
    /\ risk_assessment.niveau_risque = "CRITIQUE"

\* C3: the score is min(100, S + K + V): S = 30 for a negative trend, K = 3
\* times the weights summed over every (record, term) hit, V = 10 above 50
\* records and 15 below 3; one record without risk keyword and a trend that
\* is not negative scores 15, level FAIBLE.
C3_ScoreFormula ==
    Scored =>
        /\ risk_assessment.score_risque =
              (IF ExpectedRawScore(emails_in, sentiment_in) > 100 THEN 100
               ELSE ExpectedRawScore(emails_in, sentiment_in))
        /\ (/\ Len(emails_in) = 1
            /\ RiskPairs(emails_in) = {}
            /\ sentiment_in = ("tendance" :> "Neutre"))
           => /\ risk_assessment.score_risque = 15
              /\ risk_assessment.niveau_risque = "FAIBLE"

\* a term that occurs in two records has been counted twice, under a
\* negative trend and with the low-activity bonus
C3_Witness ==
    /\ Scored
    /\ sentiment_in = ("tendance" :> "Négative")
    /\ \E p, q \in RiskPairs(emails_in) : p[1] # q[1] /\ p[2] = q[2]
    /\ Len(emails_in) < 3
    /\ risk_assessment.score_risque < 100

\* the rearrangements of a list that are tried: every permutation of a short
\* list; of a long one its reverse, and the list with its last record moved
\* to the front
Rearranged(emails) ==
    LET n == Len(emails)
    IN  IF n <= MaxRiskEmails + 1
        THEN {<<>> \o [k \in 1..n |-> emails[p[k]]] :
                 p \in {q \in [1..n -> 1..n] : \A a, b \in 1..n : q[a] = q[b] => a = b}}
        ELSE {<<>> \o [k \in 1..n |-> emails[n + 1 - k]],
              <<emails[n]>> \o SubSeq(emails, 1, n - 1)}

\* C19: calculate_risk_score does not depend on the order of the records:
\* every rearrangement of the same records, with the same sentiment data,
\* gets the same score_risque, niveau_risque and facteurs_risque
C19_OrderIndependent ==
    Scored =>
        \A other \in Rearranged(emails_in) :
            LET again == calculate_risk_score(other, sentiment_in)
            IN  /\ again.score_risque = risk_assessment.score_risque
                /\ again.niveau_risque = risk_assessment.niveau_risque
                /\ again.facteurs_risque = risk_assessment.facteurs_risque

\* a scored list of two different records of different risk weights, and a
\* scored long list whose last record differs from the others in weight
C19_Witness ==
    /\ Scored
    /\ Len(emails_in) >= 2
    /\ CriticalityScore(emails_in[1]) # CriticalityScore(emails_in[Len(emails_in)])
    /\ risk_assessment.score_risque > 0
    /\ \E other \in Rearranged(emails_in) : other # emails_in

\* C22: facteurs_risque holds the sentiment factor iff the trend is
\* negative, the risk-keyword factor iff some (record, risk term) hit
\* occurred, and one volume factor iff the records are more than 50 or fewer
\* than 3, never both; it holds nothing else, and the factors present stand
\* in the order sentiment, risk-keyword, volume
C22_FactorsInOrder ==
    Scored =>
        LET f == risk_assessment.facteurs_risque
            hits == Cardinality(RiskPairs(emails_in))
            n == Len(emails_in)
            negative == /\ "tendance" \in DOMAIN sentiment_in
                        /\ sentiment_in["tendance"] = "Négative"
            kind_of == [j \in 1..Len(f) |->
                          IF f[j] = "Sentiment négatif dominant" THEN 1
                          ELSE IF f[j] = ToString(hits) \o " mots-clés de risque détectés"
                          THEN 2
                          ELSE IF f[j] = "Volume d'emails élevé" /\ n > 50 THEN 3
                          ELSE IF f[j] = "Activité très faible" /\ n < 3 THEN 3
                          ELSE 0]
        IN  /\ \A j \in 1..Len(f) : kind_of[j] # 0
            /\ (\E j \in 1..Len(f) : kind_of[j] = 1) <=> negative
            /\ (\E j \in 1..Len(f) : kind_of[j] = 2) <=> hits > 0
            /\ (\E j \in 1..Len(f) : kind_of[j] = 3) <=> (n > 50 \/ n < 3)
            /\ \A a, b \in 1..Len(f) : a < b => kind_of[a] < kind_of[b]

\* a scored list of more than 50 records with all three factors, the volume
\* factor last
C22_Witness ==
    /\ Scored
    /\ Len(emails_in) > 50
    /\ Len(risk_assessment.facteurs_risque) = 3
    /\ risk_assessment.facteurs_risque[3] = "Volume d'emails élevé"

(***************************************************************************)
(* Properties of the critical-email ranker (checked under SpecRisk)        *)
(***************************************************************************)
Ranked == rpc = "ranked"

\* entry x of the critical list was made from the record e
EntryOf(x, e) ==
    /\ x.subject = e.subject
    /\ x.from = e.from
    /\ x.date = e.date
    /\ x.preview = (IF Len(e.body) > 150 THEN SubSeq(e.body, 1, 150) \o "..."
                    ELSE e.body)

\* how often the record e occurs in emails, and how many entries it has
Occurrences(emails, e) == Cardinality({n \in 1..Len(emails) : emails[n] = e})

Entries(critical, e) ==
    Cardinality({j \in 1..Len(critical) : EntryOf(critical[j], e)})

\* the positions of the records that reach the threshold
Reaching(emails) == {n \in 1..Len(emails) : CriticalityScore(emails[n]) >= 4}

\* C4 as claimed: a record is in the critical list iff its criticality score
\* is >= 4 (every occurrence of a record counted).
C4_Original ==
    Ranked =>
        \A e \in SeqRange(emails_in) :
            Entries(critical_emails, e) =
                (IF CriticalityScore(e) >= 4 THEN Occurrences(emails_in, e) ELSE 0)

\* C4, amended: a record scoring below 4 is never in the list and every
\* entry is a record scoring >= 4; when at most 5 records reach 4 all of them
\* are listed; when more do, exactly 5 are listed and no record left out
\* scores higher than a listed one.
C4_ThresholdThenTop5 ==
    Ranked =>
        /\ \A e \in SeqRange(emails_in) :
              /\ CriticalityScore(e) < 4 => Entries(critical_emails, e) = 0
              /\ Entries(critical_emails, e) <= Occurrences(emails_in, e)
              /\ Entries(critical_emails, e) < Occurrences(emails_in, e)
                    /\ CriticalityScore(e) >= 4
                 => /\ Cardinality(Reaching(emails_in)) > 5
                    /\ \A j \in 1..Len(critical_emails) :
                          critical_emails[j].criticality_score >= CriticalityScore(e)
        /\ \A j \in 1..Len(critical_emails) :
              /\ critical_emails[j].criticality_score >= 4
              /\ \E e \in SeqRange(emails_in) :
                    /\ EntryOf(critical_emails[j], e)
                    /\ critical_emails[j].criticality_score = CriticalityScore(e)
        /\ Len(critical_emails) =
              (IF Cardinality(Reaching(emails_in)) > 5 THEN 5
               ELSE Cardinality(Reaching(emails_in)))

\* six records reach the threshold and one of them is left out
C4_Witness ==
    /\ Ranked
    /\ Cardinality(Reaching(emails_in)) = 6
    /\ Len(critical_emails) = 5
    /\ \E e \in SeqRange(emails_in) :
          /\ CriticalityScore(e) >= 4
          /\ Entries(critical_emails, e) < Occurrences(emails_in, e)

\* the entries of score v, in list order / the records of score v, in input order
EntriesScoring(critical, v) ==
    LET Is(x) == x.criticality_score = v IN SelectSeq(critical, Is)

RecordsScoring(emails, v) ==
    LET Is(e) == CriticalityScore(e) = v IN SelectSeq(emails, Is)

\* C5: the critical list is in descending order of criticality_score, the
\* entries of equal score stand in the order of their records in the input,
\* and the list has at most 5 entries.
C5_SortedStableTop5 ==
    Ranked =>
        /\ Len(critical_emails) <= 5
        /\ \A j, k \in 1..Len(critical_emails) :
              j < k => critical_emails[j].criticality_score
                          >= critical_emails[k].criticality_score
        /\ \A v \in {critical_emails[j].criticality_score :
                        j \in 1..Len(critical_emails)} :
              LET listed  == EntriesScoring(critical_emails, v)
                  records == RecordsScoring(emails_in, v)
              IN  /\ Len(listed) <= Len(records)
                  /\ \A j \in 1..Len(listed) : EntryOf(listed[j], records[j])

\* two different records of equal score are listed
C5_Witness ==
    /\ Ranked
    /\ \E j, k \in 1..Len(critical_emails) :
          /\ j < k
          /\ critical_emails[j].criticality_score = critical_emails[k].criticality_score
          /\ critical_emails[j].subject # critical_emails[k].subject

\* C21: every entry of the critical list carries, for its record, the score
\* (sum of the weights of the risk terms contained in the lowercased
\* subject + ' ' + body) + 5 * (number of urgency words contained in it), and
\* flags made of the risk terms met, in lexicon order, followed by
\* 'urgent_<word>' for each urgency word met, in the order of the urgency
\* list; a term of both lexicons counts on both sides
C21_ScoreAndFlags ==
    Ranked =>
        \A j \in 1..Len(critical_emails) :
            \E e \in SeqRange(emails_in) :
                LET x == critical_emails[j]
                    text == lower(e.subject \o " " \o e.body)
                    R == {k \in 1..Len(risk_keywords) :
                             Contains(risk_keywords[k].keyword, text)}
                    U == {k \in 1..Len(urgent_words) : Contains(urgent_words[k], text)}
                    weights == Cardinality({<<k, u>> \in R \X (1..3) :
                                               u <= risk_keywords[k].weight})
                IN  /\ EntryOf(x, e)
                    /\ x.criticality_score = weights + 5 * Cardinality(U)
                    /\ Len(x.flags) = Cardinality(R) + Cardinality(U)
                    /\ \A k \in R :
                          x.flags[Cardinality({m \in R : m <= k})]
                              = risk_keywords[k].keyword
                    /\ \A k \in U :
                          x.flags[Cardinality(R) + Cardinality({m \in U : m <= k})]
                              = "urgent_" \o urgent_words[k]

\* the list holds an entry whose record contains a term of both lexicons,
\* flagged twice, next to another risk term
C21_Witness ==
    /\ Ranked
    /\ \E j \in 1..Len(critical_emails) :
          /\ Len(critical_emails[j].flags) >= 3
          /\ \E a, b \in 1..Len(critical_emails[j].flags) :
                /\ a < b
                /\ critical_emails[j].flags[b] = "urgent_" \o critical_emails[j].flags[a]
          /\ critical_emails[j].criticality_score >= 9

(***************************************************************************)
(* Properties of the classification into buckets (checked under Spec)      *)
(***************************************************************************)
Lexicon == SeqRange(project_keywords)

\* the mapping search_project_emails holds, or has returned
Buckets == IF pc \in {"returned", "done"} THEN result ELSE project_data

\* the lowercased subject + ' ' + body of each record of a list
Texts(emails) == <<>> \o [n \in 1..Len(emails) |-> lower(SubjectBody(emails[n]))]

\* the occurrences of term summed over the texts
Occurring(texts, term) == SumSeq([n \in 1..Len(texts) |-> Count(texts[n], term)])

TallyIsSum ==
    kind = "keyword" =>
        \A P \in DOMAIN Buckets :
            LET texts == Texts(Buckets[P].emails)
            IN  \A term \in Lexicon :
                    DictGet(Buckets[P].keywords, term) = Occurring(texts, term)

TallyGrows ==
    \A P \in DOMAIN project_data :
        /\ P \in DOMAIN project_data'
        /\ \A term \in Lexicon :
              DictGet(project_data'[P].keywords, term)
                 >= DictGet(project_data[P].keywords, term)

\* C6: in the keyword variant every bucket's count of every lexicon term is
\* the sum, over the records in the bucket's emails, of the occurrences of
\* the term in the lowercased subject + ' ' + body, and no step of the run
\* decreases a count a bucket already has.
C6_KeywordTally == []TallyIsSum /\ [][TallyGrows]_vars

\* a bucket of two records in which a term occurs more often than there are
\* records
C6_Witness ==
    /\ kind = "keyword"
    /\ pc = "loop"
    /\ \E P \in DOMAIN project_data :
          /\ Len(project_data[P].emails) >= 2
          /\ \E term \in Lexicon :
                DictGet(project_data[P].keywords, term) > Len(project_data[P].emails)

\* P, lowercased, is a substring of the lowercased subject + ' ' + body of e
MatchesAlone(e, P) == Contains(lower(P), lower(SubjectBody(e)))

\* how often P stands in the filter list
TimesListed(P) ==
    Cardinality({k \in 1..Len(project_filters) : project_filters[k] = P})

\* the extracted records that match P on their own, in processing order,
\* each as often as P is listed
MatchingRecords(P) ==
    LET Is(e) == MatchesAlone(e, P)
        sel   == SelectSeq(fetched, Is)
        t     == TimesListed(P)
    IN  [j \in 1..(t * Len(sel)) |-> sel[(j - 1) \div t + 1]]

EmailsOf(P) == IF P \in DOMAIN Buckets THEN Buckets[P].emails ELSE <<>>

\* C7: the records in project P's bucket are the extracted records whose own
\* subject + ' ' + body contains P case-insensitively, whatever the other
\* records are, and they stand in the bucket in processing order; only
\* projects of the filter list have buckets.
C7_Partition ==
    /\ DOMAIN Buckets \subseteq SeqRange(project_filters)
    /\ \A P \in SeqRange(project_filters) : EmailsOf(P) = MatchingRecords(P)

\* one record is in two buckets, a bucket holds two different records, and
\* one record is in no bucket
C7_Witness ==
    /\ pc = "returned"
    /\ \E P, Q \in DOMAIN result :
          /\ P # Q
          /\ \E e \in SeqRange(result[P].emails) : e \in SeqRange(result[Q].emails)
          /\ Cardinality(SeqRange(result[P].emails)) >= 2
    /\ \E e \in SeqRange(fetched) :
          \A P \in DOMAIN result : e \notin SeqRange(result[P].emails)

\* the projects of the filter list that some extracted record matches
MatchedProjects ==
    {P \in SeqRange(project_filters) :
        \E n \in 1..Len(fetched) : MatchesAlone(fetched[n], P)}

\* C8: the mapping has a key for P iff an extracted record matched P; the
\* call returns a mapping in every case, and when no record was extracted or
\* none matched a filter the mapping is empty and so is its summary.
C8_LazyBuckets ==
    /\ DOMAIN project_data = MatchedProjects
    /\ pc \in {"returned", "done"} =>
          /\ DOMAIN result = MatchedProjects
          /\ MatchedProjects = {} =>
                /\ result = <<>>
                /\ \A orders \in SetOrders(result) :
                      generate_summary(result, orders) = <<>>

\* records were extracted; one project of the list has its bucket, another,
\* which no record matched, has none
C8_Witness ==
    /\ pc = "returned"
    /\ fetched # <<>>
    /\ DOMAIN result # {}
    /\ \E P \in SeqRange(project_filters) : P \notin DOMAIN result

AddressesOf(email_content) ==
    SeqRange(findall(email_content.from)) \cup SeqRange(findall(email_content.to))

ParticipantsAreUnion ==
    \A P \in DOMAIN Buckets :
        Buckets[P].participants =
            UNION {AddressesOf(e) : e \in SeqRange(Buckets[P].emails)}

\* a step that files once more a record the bucket already holds leaves the
\* bucket's participants as they were
RefilingKeepsParticipants ==
    \A P \in DOMAIN project_data :
        (/\ i < Len(mailbox)
         /\ fetched' = Append(fetched, mailbox[i + 1])
         /\ mailbox[i + 1] \in SeqRange(project_data[P].emails)
         /\ Len(project_data'[P].emails) > Len(project_data[P].emails))
        => project_data'[P].participants = project_data[P].participants

\* C15: in both variants a bucket's participants are the union of the
\* addresses extracted from the from and to headers of the bucket's records:
\* an address met several times is there once, filing a record a second time
\* leaves the participants unchanged, and a record whose from or to is empty
\* or holds no address adds nothing and raises no error
C15_ParticipantsUnion == []ParticipantsAreUnion /\ [][RefilingKeepsParticipants]_vars

\* a returned bucket holds one record twice, whose sender is also among its
\* recipients, and a record with an empty from and a to without address: its
\* participants are two
C15_Witness ==
    /\ pc = "returned"
    /\ \E P \in DOMAIN result :
          /\ \E a, b \in 1..Len(result[P].emails) :
                /\ a < b
                /\ result[P].emails[a] = result[P].emails[b]
                /\ Cardinality(AddressesOf(result[P].emails[a])) = 2
                /\ Len(findall(result[P].emails[a].from \o ", " \o result[P].emails[a].to)) > 2
          /\ \E c \in 1..Len(result[P].emails) :
                /\ result[P].emails[c].from = ""
                /\ result[P].emails[c].to # ""
                /\ AddressesOf(result[P].emails[c]) = {}
          /\ Cardinality(result[P].participants) = 2

\* C18: in the keyword variant the activity score of a project is its number
\* of emails plus the number of distinct keywords tallied in its bucket,
\* however many these are
C18_ActivityScore ==
    pc = "done" =>
        \A P \in DOMAIN summary :
            summary[P].score_activite =
                Len(result[P].emails) + Cardinality(DictKeys(result[P].keywords))

\* the place of a term in the lexicon
LexIndex(term) == CHOOSE j \in 1..Len(project_keywords) : project_keywords[j] = term

\* when a term was first tallied in a bucket, as a number: the record of its
\* first occurrence counts first, its place in the lexicon second; texts are
\* the lowercased texts of the bucket's records
TallyRank(texts, term) ==
    SetMin({n \in 1..Len(texts) : Count(texts[n], term) > 0})
        * (Len(project_keywords) + 1) + LexIndex(term)

\* top is made of min(10, number of keywords) items of the mapping, counts
\* descending, and no item left out has a greater count than an item in it
IsTopTen(top, keywords) ==
    /\ Len(top) = Min(10, Len(keywords))
    /\ SeqRange(top) \subseteq SeqRange(keywords)
    /\ \A a, b \in 1..Len(top) : a < b => top[a].count >= top[b].count
    /\ \A a, b \in 1..Len(top) : a # b => top[a].keyword # top[b].keyword
    /\ \A x \in SeqRange(keywords) \ SeqRange(top) :
          \A a \in 1..Len(top) : top[a].count >= x.count

\* C20 as stated: mots_cles_principaux are the ten pairs of highest count,
\* counts descending, pairs of equal count in the order of the lexicon
C20_Original ==
    pc = "done" =>
        \A P \in DOMAIN summary :
            LET top == summary[P].mots_cles_principaux
                keywords == result[P].keywords
            IN  /\ IsTopTen(top, keywords)
                /\ \A a, b \in 1..Len(top) :
                      (a < b /\ top[a].count = top[b].count) =>
                          LexIndex(top[a].keyword) < LexIndex(top[b].keyword)
                /\ \A x \in SeqRange(keywords) \ SeqRange(top) :
                      \A a \in 1..Len(top) :
                          top[a].count = x.count =>
                              LexIndex(top[a].keyword) < LexIndex(x.keyword)

\* C20, amended: mots_cles_principaux are the ten pairs of highest count,
\* counts descending, pairs of equal count in the order in which their
\* keywords were first tallied in the bucket: by the record of the first
\* occurrence, and within one record by the order of the lexicon
C20_TopTenByFirstTally ==
    pc = "done" =>
        \A P \in DOMAIN summary :
            LET top == summary[P].mots_cles_principaux
                keywords == result[P].keywords
                texts == Texts(result[P].emails)
                rank == <<>> \o [a \in 1..Len(top) |-> TallyRank(texts, top[a].keyword)]
            IN  /\ IsTopTen(top, keywords)
                /\ \A a, b \in 1..Len(top) :
                      (a < b /\ top[a].count = top[b].count) => rank[a] < rank[b]
                /\ \A x \in SeqRange(keywords) \ SeqRange(top) :
                      \A a \in 1..Len(top) :
                          top[a].count = x.count =>
                              rank[a] < TallyRank(texts, x.keyword)

\* a summary cut to ten of more than ten keywords, in which two keywords of
\* equal count stand against the order of the lexicon
C20_Witness ==
    /\ pc = "done"
    /\ \E P \in DOMAIN summary :
          /\ Len(result[P].keywords) > 10
          /\ Len(summary[P].mots_cles_principaux) = 10
          /\ \E a, b \in 1..10 :
                /\ a < b
                /\ summary[P].mots_cles_principaux[a].count
                     = summary[P].mots_cles_principaux[b].count
                /\ LexIndex(summary[P].mots_cles_principaux[a].keyword)
                     > LexIndex(summary[P].mots_cles_principaux[b].keyword)

\* a step that passes over a message without extracting it keeps every
\* bucket as it was and leaves the loop running
SkipKeepsBuckets ==
    (i' = i + 1 /\ fetched' = fetched) =>
        /\ project_data' = project_data
        /\ pc' = "loop"

\* once the loop has begun, the search returns only after the last message,
\* and returns the buckets of all the records extracted, those before a
\* skipped message and those after it
ReturnsAfterLastRecord ==
    (pc \in {"returned", "done"} /\ i > 0) =>
        /\ i = Len(mailbox)
        /\ result = project_data
        /\ \A n \in 1..Len(fetched) :
              \A P \in SeqRange(project_filters) :
                  MatchesAlone(fetched[n], P) =>
                      fetched[n] \in SeqRange(result[P].emails)

\* C17: a failure on one message (FETCH not OK, parsing, classification or
\* extraction raising) is handled by skipping that message: the buckets
\* built so far are kept, the messages after it are still handled, and the
\* search is not aborted by it
C17_SkipAndContinue == []ReturnsAfterLastRecord /\ [][SkipKeepsBuckets]_vars

\* the second of three messages was skipped; the first and the third are
\* together in a returned bucket
C17_Witness ==
    /\ pc = "returned"
    /\ Len(mailbox) = 3
    /\ fetched = <<mailbox[1], mailbox[3]>>
    /\ mailbox[2] \notin {mailbox[1], mailbox[3]}
    /\ \E P \in DOMAIN result : result[P].emails = fetched

C25_AtMostOncePerBucket ==
    \A P \in DOMAIN Buckets :
        /\ Len(Buckets[P].emails) <= Len(fetched)
        /\ \A e \in SeqRange(fetched) :
              Occurrences(Buckets[P].emails, e) <= Occurrences(fetched, e)
        /\ kind = "keyword" =>
              \A term \in Lexicon :
                  DictGet(Buckets[P].keywords, term) <=
                      SumSeq([n \in 1..Len(fetched) |->
                                 Count(lower(SubjectBody(fetched[n])), term)])

(***************************************************************************)
(* Properties of the date range (checked under SpecDates)                  *)
(***************************************************************************)
\* the local day (host in UTC) of each Date header that parses, as a number
\* yyyymmdd and as strftime('%d/%m/%Y') writes it
LocalDay ==
    ("Mon, 02 Jun 2025 10:00:00 +0000" :> [day |-> 20250602, text |-> "02/06/2025"])
    @@ ("Mon, 02 Jun 2025 23:30:00 +0000" :> [day |-> 20250602, text |-> "02/06/2025"])
    @@ ("Tue, 03 Jun 2025 00:30:00 +0200 (CEST)" :>
            [day |-> 20250602, text |-> "02/06/2025"])
    @@ ("Wed, 04 Jun 2025 09:30:00 +0200 (CEST)" :>
            [day |-> 20250604, text |-> "04/06/2025"])

\* C24: the periode of a summary comes from the parseable dates of the bucket
\* alone: it is empty when none parses, the one formatted day when the
\* earliest and the latest parseable date fall on the same day, and
\* 'earliest - latest' otherwise; a missing or unparseable date is ignored
\* and the summary is built all the same
C24_Periode ==
    /\ pc = "done" =>
          \A P \in DOMAIN result :
              LET known == {d \in SeqRange(result[P].dates) : d \in DOMAIN LocalDay}
                  first == CHOOSE d \in known :
                              \A o \in known : LocalDay[d].day <= LocalDay[o].day
                  last  == CHOOSE d \in known :
                              \A o \in known : LocalDay[d].day >= LocalDay[o].day
              IN  summary[P].periode =
                      IF known = {} THEN ""
                      ELSE IF LocalDay[first].day = LocalDay[last].day
                      THEN LocalDay[first].text
                      ELSE LocalDay[first].text \o " - " \o LocalDay[last].text
    /\ pc = "done" => DOMAIN summary = DOMAIN result

\* a summary whose bucket holds an unparseable date between two dates of
\* different days, the later one first
C24_Witness ==
    /\ pc = "done"
    /\ \E P \in DOMAIN summary :
          /\ Len(result[P].dates) = 3
          /\ result[P].dates[2] = "not a date"
          /\ result[P].dates[1] = "Wed, 04 Jun 2025 09:30:00 +0200 (CEST)"
          /\ summary[P].periode = "02/06/2025 - 04/06/2025"

(***************************************************************************)
(* Two runs of the program compared (checked under SpecTwice)              *)
(***************************************************************************)
\* C10: when the second run has extracted the same records as the first,
\* its summary is the first run's summary, the participants lists and the
\* top keywords in the same order.
C10_Idempotent ==
    (run = 2 /\ pc = "done" /\ fetched = first_fetched) => summary = first_summary

(***************************************************************************)
(* Properties of analyze_sentiment (checked under SpecSentiment)           *)
(***************************************************************************)
\* the emails the loop has handled without skipping them
Analysed == {k \in 1..si : ml_calls[k] # "skipped"}

\* the entry of sentiments made for the k-th email, k in Analysed
EntryFor(k) == sentiments[Cardinality({j \in 1..k : ml_calls[j] # "skipped"})]

\* the terms of a lexicon found in the lowercased text, each once
TermsFound(words, text) ==
    {words[j] : j \in {x \in 1..Len(words) : Contains(words[x], lower(text))}}

\* C11: the keyword scorer sets p and n to the numbers of positive and of
\* negative lexicon terms contained in the lowercased text; it answers
\* POSITIVE with 0.6 + 0.1 p when p > n, NEGATIVE with 0.6 + 0.1 n when
\* n > p and NEUTRAL with 0.5 when p = n; its confidence is never below 0.5,
\* is not capped, and is above 1.0 as soon as the winning side has five hits
C11_BasicScorer ==
    \A k \in Analysed :
        ml_calls[k] \in {"raised", "absent"} =>
            LET text == SentimentText(sent_emails[k])
                p == Cardinality(TermsFound(positive_keywords, text))
                n == Cardinality(TermsFound(negative_keywords, text))
                e == EntryFor(k)
            IN  /\ p > n => e.sentiment = "POSITIVE" /\ e.confidence = 60 + 10 * p
                /\ n > p => e.sentiment = "NEGATIVE" /\ e.confidence = 60 + 10 * n
                /\ p = n => e.sentiment = "NEUTRAL" /\ e.confidence = 50
                /\ e.confidence >= 50
                /\ (p # n /\ (p >= 5 \/ n >= 5)) => e.confidence > 100

\* a run in which the keyword scorer met five terms of one side and answered
\* above 1.0, met more negative than positive terms, and met a tie
C11_Witness ==
    /\ spc = "returned"
    /\ \E k \in Analysed :
          /\ ml_calls[k] = "absent"
          /\ EntryFor(k).sentiment = "POSITIVE"
          /\ EntryFor(k).confidence > 100
    /\ \E k \in Analysed :
          /\ EntryFor(k).method = "Basic"
          /\ EntryFor(k).sentiment \in {"NEGATIVE", "NEUTRAL"}

\* the entries of sentiments whose label contains `label`
Labelled(label) ==
    {k \in 1..Len(sentiments) : Contains(label, sentiments[k].sentiment)}

\* the entries of sentiments that count as neutral: neither of the other two
Neutrals ==
    (1..Len(sentiments)) \ (Labelled("POSITIVE") \cup Labelled("NEGATIVE"))

\* C12 as stated: the trend is the label whose count is strictly greater than
\* the counts of the other labels, and is neutral when no label is alone in
\* front
C12_Original ==
    (spc = "returned" /\ sentiments # <<>>) =>
        LET p == Cardinality(Labelled("POSITIVE"))
            n == Cardinality(Labelled("NEGATIVE"))
            u == Cardinality(Neutrals)
        IN  sentiment_analysis["tendance"] =
                IF p > n /\ p > u THEN "Positive"
                ELSE IF n > p /\ n > u THEN "Négative"
                ELSE "Neutre"

\* C12, amended: the trend is Positive when the entries labelled POSITIVE
\* are strictly more than those labelled NEGATIVE, Négative when they are
\* strictly fewer, and Neutre only when these two counts tie exactly; the
\* entries of any other label take no part in the comparison
C12_TrendPositiveAgainstNegative ==
    (spc = "returned" /\ sentiments # <<>>) =>
        LET p == Cardinality(Labelled("POSITIVE"))
            n == Cardinality(Labelled("NEGATIVE"))
            trend == sentiment_analysis["tendance"]
        IN  /\ trend \in {"Positive", "Négative", "Neutre"}
            /\ trend = "Positive" <=> p > n
            /\ trend = "Négative" <=> n > p
            /\ trend = "Neutre" <=> p = n

\* a summary whose trend is Positive although the positive entries are not
\* more than the neutral ones
C12_Witness ==
    /\ spc = "returned"
    /\ sentiments # <<>>
    /\ sentiment_analysis["tendance"] = "Positive"
    /\ Cardinality(Neutrals) >= Cardinality(Labelled("POSITIVE"))

\* C13: when the ML model is absent, or raises on a record, the entry made
\* for that record carries exactly the label and the confidence of
\* analyze_sentiment_basic on the same text cut to 512 characters; the
\* failure does not reach the caller: the loop goes on to the last record,
\* every record with a non-blank text has its entry, and statistics are
\* returned
C13_FallbackToBasic ==
    /\ \A k \in Analysed :
          ml_calls[k] \in {"raised", "absent"} =>
              LET whole == sent_emails[k].subject \o " " \o sent_emails[k].body
                  text == IF Len(whole) > 512 THEN SubSeq(whole, 1, 512) ELSE whole
                  basic == analyze_sentiment_basic(text)
              IN  /\ EntryFor(k).sentiment = basic.label
                  /\ EntryFor(k).confidence = basic.score
    /\ spc = "loop" => si <= Len(sent_emails) /\ sentiment_analysis = NoValue
    /\ spc = "returned" =>
          /\ si = Len(sent_emails)
          /\ Len(sentiments) = Cardinality(Analysed)
          /\ \A k \in 1..Len(sent_emails) :
                k \in Analysed <=>
                    \E c \in 1..Len(sent_emails[k].subject \o " " \o sent_emails[k].body) :
                        c <= 512 /\
                        SubSeq(sent_emails[k].subject \o " " \o sent_emails[k].body, c, c)
                            \notin Whitespace
          /\ "emails_analysés" \in DOMAIN sentiment_analysis

\* the model raised on a record whose text is longer than 512 characters,
\* and a later record was analysed all the same
C13_Witness ==
    /\ spc = "returned"
    /\ \E k \in Analysed :
          /\ ml_calls[k] = "raised"
          /\ Len(SubjectBody(sent_emails[k])) > 512
          /\ \E j \in Analysed : j > k

\* C14: the method recorded matches the scorer used: an entry is tagged ML
\* exactly when the ML model produced its label and Basic exactly when the
\* keyword scorer did, and the statistics report the method ML only if the
\* ML model produced results among those they summarise
C14_MethodMatchesScorer ==
    /\ \A k \in Analysed :
          /\ EntryFor(k).method = "ML" <=> ml_calls[k] = "answered"
          /\ EntryFor(k).method = "Basic" <=> ml_calls[k] \in {"raised", "absent"}
    /\ (spc = "returned" /\ sentiments # <<>>) =>
          (sentiment_analysis["méthode"] = "ML" =>
              \E k \in Analysed : ml_calls[k] = "answered")

\* C23: emails_analysés is the number of records whose subject + ' ' + body,
\* cut to 512 characters, is not blank; when records were analysed,
\* sentiment_positif + sentiment_négatif + sentiment_neutre is that number
\* and détails holds the results of the last min(3, emails_analysés) analysed
\* records, in processing order.  (When none was analysed the summary is
\* {"emails_analysés": 0} and has no other field.)
C23_SummaryCounts ==
    spc = "returned" =>
        LET Cut(k) == LET whole == sent_emails[k].subject \o " " \o sent_emails[k].body
                      IN  IF Len(whole) > 512 THEN SubSeq(whole, 1, 512) ELSE whole
            A == {k \in 1..Len(sent_emails) :
                     \E c \in 1..Len(Cut(k)) : SubSeq(Cut(k), c, c) \notin Whitespace}
            n == Cardinality(A)
            m == IF n < 3 THEN n ELSE 3
            Nth(r) == CHOOSE k \in A : Cardinality({a \in A : a <= k}) = r
        IN  /\ sentiment_analysis["emails_analysés"] = n
            /\ n > 0 =>
                  /\ sentiment_analysis["sentiment_positif"]
                       + sentiment_analysis["sentiment_négatif"]
                       + sentiment_analysis["sentiment_neutre"] = n
                  /\ Len(sentiment_analysis["détails"]) = m
                  /\ \A j \in 1..m :
                        /\ sentiment_analysis["détails"][j] = sentiments[n - m + j]
                        /\ sentiment_analysis["détails"][j].subject
                             = sent_emails[Nth(n - m + j)].subject
                        /\ sentiment_analysis["détails"][j].date
                             = sent_emails[Nth(n - m + j)].date

\* five records of which one is blank: four are counted and the details
\* are those of the last three analysed
C23_Witness ==
    /\ spc = "returned"
    /\ Len(sent_emails) = 5
    /\ "skipped" \in SeqRange(ml_calls)
    /\ sentiment_analysis["emails_analysés"] = 4
    /\ Len(sentiment_analysis["détails"]) = 3
    /\ sentiment_analysis["détails"][1].subject = sent_emails[2].subject

(***************************************************************************)
(* Properties of the IMAP session (checked under SpecSession)              *)
(***************************************************************************)
\* C26: connect() answers True exactly when LOGIN succeeded on a connection
\* opened over SSL on the configured port or, the SSL attempt having failed,
\* over plain IMAP on port 143; when both attempts fail or LOGIN fails it
\* answers False, and every path out of connect() leaves an answer (nothing
\* is raised).  The plain connection is tried only after the SSL one failed.
C26_ConnectAnswer ==
    LET n == Len(commands)
        Is(k, cmd, status) ==
            /\ k \in 1..n
            /\ commands[k].cmd = cmd
            /\ commands[k].status = status
        OverSSL == Is(1, "IMAP4_SSL", "OK") /\ commands[1].arg = port
        OverPlain ==
            /\ Is(1, "IMAP4_SSL", "raise") /\ commands[1].arg = port
            /\ Is(2, "IMAP4", "OK") /\ commands[2].arg = 143
        LoggedIn ==
            \/ OverSSL /\ Is(2, "LOGIN", "OK")
            \/ OverPlain /\ Is(3, "LOGIN", "OK")
        Refused ==
            \/ Is(1, "IMAP4_SSL", "raise") /\ Is(2, "IMAP4", "raise")
            \/ OverSSL /\ Is(2, "LOGIN", "raise")
            \/ OverPlain /\ Is(3, "LOGIN", "raise")
        inConnect == pc \in {"start", "plain", "login"}
    IN  /\ (connect_result = "True") <=> (LoggedIn /\ ~inConnect)
        /\ (connect_result = "False") <=> (Refused /\ ~inConnect)
        /\ (n > 0 /\ ~inConnect) => connect_result \in {"True", "False"}
        /\ \A k \in 1..n : commands[k].cmd = "IMAP4" =>
              k = 2 /\ Is(1, "IMAP4_SSL", "raise")

\* connect() answered True after LOGIN over the plain connection, opened
\* because the SSL attempt on port 993 failed
C26_Witness ==
    /\ connect_result = "True"
    /\ Len(commands) >= 3
    /\ commands[2].cmd = "IMAP4"
    /\ commands[3].cmd = "LOGIN"
    /\ port = 993

\* C27 as stated: once main has left its finally clause with a connection
\* opened (self.mail set), LOGOUT has been issued on it
C27_LogoutIssued ==
    (pc = "exited" /\ conn # "none") =>
        \E k \in 1..Len(commands) : commands[k].cmd = "LOGOUT"

\* C28: search_project_emails always returns a mapping, and returns the
\* empty one when there is no connection, when SELECT is not answered OK,
\* when SEARCH is not answered OK, when the search finds no message, and
\* when either command raises.  When both commands are answered OK the loop
\* runs to the last message and a message whose FETCH is not OK is the only
\* one missing: every record extracted is in the bucket of each filter it
\* matches.
C28_EmptyOnFailure ==
    LET n == Len(commands)
        With(cmd) == {k \in 1..n : commands[k].cmd = cmd}
        Answered(cmd) == \E k \in With(cmd) : commands[k].status = "OK"
        returned == pc \in {"returned", "done"}
                    \/ (pc = "exited" /\ connect_result = "True")
    IN  returned =>
          /\ DOMAIN result \subseteq SeqRange(project_filters)
          /\ (With("SELECT") = {} \/ ~Answered("SELECT")
                \/ ~Answered("SEARCH") \/ mailbox = <<>>) => result = <<>>
          /\ (Answered("SELECT") /\ Answered("SEARCH")) =>
                /\ i = Len(mailbox)
                /\ \A m \in 1..Len(fetched) :
                      \A P \in SeqRange(project_filters) :
                          MatchesAlone(fetched[m], P) =>
                              /\ P \in DOMAIN result
                              /\ fetched[m] \in SeqRange(result[P].emails)

\* the SEARCH was refused on a mailbox that holds a message of a project:
\* the call returned the empty mapping
C28_Witness ==
    /\ pc = "returned"
    /\ result = <<>>
    /\ Len(commands) > 0
    /\ commands[Len(commands)].cmd = "SEARCH"
    /\ commands[Len(commands)].status = "NO"
    /\ \E m \in 1..Len(mailbox) :
          \E P \in SeqRange(project_filters) : MatchesAlone(mailbox[m], P)

(***************************************************************************)
(* Properties of the LinkedIn bot (checked under SpecBot and SpecRetry)    *)
(***************************************************************************)
\* C29: over any sequence of result pages the counter of connection-request
\* attempts never exceeds MAX_CONNECT_REQUESTS; once it has reached the
\* limit no Connect or Follow button is handled any more, the for loop over
\* the buttons is not entered again, and the while loop over the pages ends.
C29_RequestLimit ==
    /\ connect_requests_sent <= MAX_CONNECT_REQUESTS
    /\ after_limit = 0
    /\ connect_requests_sent >= MAX_CONNECT_REQUESTS =>
          /\ ~working
          /\ bpc \in {"next", "page", "exited"}
    /\ connect_requests_sent < MAX_CONNECT_REQUESTS => working

\* the limit was reached on a later page with buttons of that page still
\* to come, and process_buttons has ended
C29_Witness ==
    /\ connect_requests_sent = MAX_CONNECT_REQUESTS
    /\ bpc = "exited"
    /\ page > 1
    /\ button + 1 < nbuttons

\* C30: a call of handle_connect_button_with_retry makes at most
\* MAX_RETRIES attempts; it returns True at the first attempt in which no
\* step raises and makes no attempt after it; it returns False exactly when
\* MAX_RETRIES attempts in a row have raised; it always returns one of the
\* two.
C30_RetryBound ==
    LET n == Len(attempts)
        raised == {k \in 1..n : attempts[k] # 0}
    IN  /\ n <= MAX_RETRIES
        /\ retry_count = Cardinality(raised)
        /\ \A k \in 1..n : attempts[k] = 0 => k = n
        /\ (sent = "True") <=> (n > 0 /\ attempts[n] = 0)
        /\ (sent = "False") <=>
              (hpc = "returned" /\ n = MAX_RETRIES /\ raised = 1..n)
        /\ hpc = "returned" => sent \in {"True", "False"}

\* the call returned True at its third attempt, after two that raised
C30_Witness ==
    /\ hpc = "returned"
    /\ sent = "True"
    /\ Len(attempts) = 3
    /\ attempts[1] # 0
    /\ attempts[2] # 0

=============================================================================
